---- MODULE Spec2Model ----
(***************************************************************************)
(* A model of the ng5Gdata capture tools: the two extractors               *)
(* (analyze_pcap.py, analyze_pcapng.py) and the text parsers that read     *)
(* their output (plot_sequence.py, plotmessages.py, plot_spid_dpid.py).    *)
(*                                                                         *)
(* Bytes are integers 0..255.  A decoded text is a sequence of characters; *)
(* a character is a string: a printable ASCII character is itself; a       *)
(* control character and the backquote are written "xHH" (the code).       *)
(* Python's None is the empty tuple and a present value v is <<v>>, so     *)
(* that a number and None can be compared.                                 *)
(***************************************************************************)
EXTENDS Integers, Sequences, FiniteSets, TLC

VARIABLES
    pc,               \* where the running program is
    nblocks,          \* number of blocks / packets / lines the source has supplied
    first_timestamp,  \* main: first_timestamp
    norm_time,        \* main: norm_time
    first_written,    \* analyze_pcap.main: first_written
    out_fp,           \* the lines written to the output file, in order
    last,             \* the block of the last loop iteration and what became of it
    capture,          \* which family of inputs the capture source supplies
    filename_bound,   \* analyze_pcapng: whether the global name `filename` is bound
    substrings,       \* packet_contains_data: the configured marker list
    data,             \* the text under classification / the data of the record parsed
    matching,         \* packet_contains_data: the results
    parsed,           \* the parsers' results for `data`
    records,          \* plot_sequence_diagram: the records it is called with
    start_time,       \* plot_sequence_diagram: start_time
    end_time,         \* plot_sequence_diagram: end_time
    diagram,          \* plot_sequence_diagram: what it has computed and drawn
    in_fp,            \* filter_relevant_messages: the lines of input_file
    begin_interval,   \* filter_relevant_messages: begin_interval
    end_interval,     \* filter_relevant_messages: end_interval
    relevant,         \* filter_relevant_messages: the lines written to output_file
    json_file,        \* plotmessages: the lines of json_file
    dpid_command_times, \* plot_pid_vs_command: dpid_command_times
    fault             \* which call to the file system fails in this run, if any

vars == << pc, nblocks, first_timestamp, norm_time, first_written, out_fp, last,
           capture, filename_bound, substrings, data, matching, parsed,
           records, start_time, end_time, diagram,
           in_fp, begin_interval, end_interval, relevant,
           json_file, dpid_command_times, fault >>

extractor_vars == << first_timestamp, norm_time, first_written, out_fp, last,
                     capture, filename_bound, nblocks >>

text_vars == << substrings, data, matching, parsed >>

plot_vars == << records, start_time, end_time, diagram >>

filter_vars == << in_fp, begin_interval, end_interval, relevant >>

timeline_vars == << json_file, dpid_command_times >>

(***************************************************************************)
(* Bounds of the model.                                                    *)
(***************************************************************************)
MaxBlocks == 3

MaxMarkers == 2

MaxSegments == 2

\* The most records plot_sequence_diagram is called with.
MaxMessages == 3

\* The most lines the filter's input file holds.
MaxLines == 3

\* The most vectors in the body of a binding command.
MaxVectors == 3

(***************************************************************************)
(* Python values.                                                          *)
(***************************************************************************)
None == << >>

Some(v) == << v >>

Val(o) == o[1]

Min(S) == CHOOSE x \in S : \A y \in S : x <= y

Range(s) == { s[i] : i \in 1..Len(s) }

\* s[a:] and s[a:b] of Python for 0 <= a <= b: a slice never raises, it clamps.
PySliceFrom(s, a) == SubSeq(s, a + 1, Len(s))

PySlice(s, a, b) == SubSeq(s, a + 1, IF b < Len(s) THEN b ELSE Len(s))

\* s[i] of Python for i >= 0: an index past the end raises IndexError (-1 here).
PyIndex(s, i) == IF i < Len(s) THEN s[i + 1] ELSE -1

(***************************************************************************)
(* Characters.                                                             *)
(***************************************************************************)
Ascii ==
    << "x00", "x01", "x02", "x03", "x04", "x05", "x06", "x07",
       "x08", "x09", "x0A", "x0B", "x0C", "x0D", "x0E", "x0F",
       "x10", "x11", "x12", "x13", "x14", "x15", "x16", "x17",
       "x18", "x19", "x1A", "x1B", "x1C", "x1D", "x1E", "x1F",
       " ", "!", "\"", "#", "$", "%", "&", "'",
       "(", ")", "*", "+", ",", "-", ".", "/",
       "0", "1", "2", "3", "4", "5", "6", "7",
       "8", "9", ":", ";", "<", "=", ">", "?",
       "@", "A", "B", "C", "D", "E", "F", "G",
       "H", "I", "J", "K", "L", "M", "N", "O",
       "P", "Q", "R", "S", "T", "U", "V", "W",
       "X", "Y", "Z", "[", "\\", "]", "^", "_",
       "x60", "a", "b", "c", "d", "e", "f", "g",
       "h", "i", "j", "k", "l", "m", "n", "o",
       "p", "q", "r", "s", "t", "u", "v", "w",
       "x", "y", "z", "{", "|", "}", "~", "x7F" >>

\* A string literal as a text.
Str(s) == [ i \in 1..Len(s) |-> SubSeq(s, i, i) ]

Ord == [ c \in Range(Ascii) |-> CHOOSE i \in 0..127 : Ascii[i + 1] = c ]

CodeSet(lo, hi) == { Ascii[i + 1] : i \in lo..hi }

\* str.isprintable() on ASCII: the codes 0x20..0x7E.
Printable == CodeSet(32, 126)

\* \s of a str pattern, on ASCII: \t \n \v \f \r, 0x1C..0x1F and the space.
ReSpace == CodeSet(9, 13) \cup CodeSet(28, 32)

\* [a-zA-Z0-9_-]
NameChars == CodeSet(97, 122) \cup CodeSet(65, 90) \cup CodeSet(48, 57) \cup {"_", "-"}

\* [0-9A-F]
UpperHex == CodeSet(48, 57) \cup CodeSet(65, 70)

\* The argument of lstrip: ' \r\n\t', 0x00..0x08, 0x0B, 0x0C, 0x0E..0x1F, 0x7F.
LStripChars ==
    {" ", "x0D", "x0A", "x09"} \cup CodeSet(0, 8) \cup {"x0B", "x0C"}
        \cup CodeSet(14, 31) \cup {"x7F"}

(***************************************************************************)
(* bytes.decode(errors='ignore') and str.encode().  The inputs of the      *)
(* model hold no byte >= 0x80 other than 0xFF, which starts no UTF-8       *)
(* sequence and is dropped; an ASCII byte decodes to its character.        *)
(***************************************************************************)
Decode(bytes) ==
    LET kept == SelectSeq(bytes, LAMBDA b : b < 128)
    IN  [ i \in 1..Len(kept) |-> Ascii[kept[i] + 1] ]

Encode(text) == [ i \in 1..Len(text) |-> Ord[text[i]] ]

\* `sub in text`: some index at which text continues with sub.
Find(text, sub) ==
    { i \in 1..(Len(text) - Len(sub) + 1) : SubSeq(text, i, i + Len(sub) - 1) = sub }

Contains(text, sub) == Find(text, sub) # {}

StartsWith(text, prefix) ==
    Len(text) >= Len(prefix) /\ SubSeq(text, 1, Len(prefix)) = prefix

\* str.lstrip(chars)
RECURSIVE LStrip(_, _)
LStrip(text, chars) ==
    IF text # << >> /\ Head(text) \in chars THEN LStrip(Tail(text), chars) ELSE text

clean_string(s) == SelectSeq(s, LAMBDA c : c \in Printable)

\* f'{b:02x}'
HexLower == Str("0123456789abcdef")

Hex2(b) == << HexLower[(b \div 16) + 1], HexLower[(b % 16) + 1] >>

\* An address in upper-case hex (the variant C25 is checked against).
mac_addr_upper(mac_bytes) ==
    [ k \in 1..(3 * Len(mac_bytes) - 1) |->
        IF k % 3 = 0 THEN ":"
        ELSE LET b == mac_bytes[(k + 2) \div 3]
             IN  Str("0123456789ABCDEF")[(IF k % 3 = 1 THEN b \div 16 ELSE b % 16) + 1] ]

mac_addr(mac_bytes) ==
    [ k \in 1..(3 * Len(mac_bytes) - 1) |->
        IF k % 3 = 0 THEN ":" ELSE Hex2(mac_bytes[(k + 2) \div 3])[((k - 1) % 3) + 1] ]

(***************************************************************************)
(* re.search(r'ng\s+-[a-zA-Z0-9_-]+', text): the leftmost position at      *)
(* which the pattern matches.  Positions here are 1-based; match.start()   *)
(* is the position minus one.                                              *)
(***************************************************************************)
\* The first position at or after i that holds no \s character.
RECURSIVE SkipSpace(_, _)
SkipSpace(text, i) ==
    IF i <= Len(text) /\ text[i] \in ReSpace THEN SkipSpace(text, i + 1) ELSE i

\* The first position at or after i that holds no name character.
RECURSIVE SkipName(_, _)
SkipName(text, i) ==
    IF i <= Len(text) /\ text[i] \in NameChars THEN SkipName(text, i + 1) ELSE i

\* ng\s+- matches at i: the position after the '-', or 0.  \s+ and '-' are
\* disjoint, so the match of \s+ is the whole run of spaces.
NgDashAt(text, i) ==
    IF i + 3 <= Len(text) /\ text[i] = "n" /\ text[i + 1] = "g"
    THEN LET j == SkipSpace(text, i + 2)
         IN  IF j > i + 2 /\ j <= Len(text) /\ text[j] = "-" THEN j + 1 ELSE 0
    ELSE 0

CommandNameAt(text, i) ==
    LET j == NgDashAt(text, i)
    IN  j # 0 /\ SkipName(text, j) > j

\* A search that returns the last match instead of the first (the variant
\* C7 is checked against).
CommandNameSearchLast(text) ==
    LET starts == { i \in 1..Len(text) : CommandNameAt(text, i) }
    IN  IF starts = {} THEN None
        ELSE Some(CHOOSE i \in starts : \A k \in starts : k <= i)

CommandNameSearch(text) ==
    LET starts == { i \in 1..Len(text) : CommandNameAt(text, i) }
    IN  IF starts = {} THEN None ELSE Some(Min(starts))

(***************************************************************************)
(* analyze_pcap.py                                                         *)
(***************************************************************************)
PCAP_SUBSTRINGS == << Str("ng -notify"), Str("ng -p"), Str("ng -d"), Str("ng -s") >>

\* packet_contains_data of analyze_pcap.py: True or False.
pcap_packet_contains_data(bytes, substrs) ==
    LET data_str == Decode(bytes)
    IN  \E k \in 1..Len(substrs) : Contains(data_str, substrs[k])

EthProto(packet) == packet[13] * 256 + packet[14]

is_icmp(packet) ==
    IF Len(packet) < 34 THEN FALSE
    ELSE IF EthProto(packet) # 2048 THEN FALSE
    ELSE packet[24] = 1

\* The block's timestamp: block.timestamp when the block has one, else
\* ((timestamp_high << 32) + timestamp_low) / 1_000_000 when it has both
\* halves, else None.  2^32 = 4294 * 10^6 + 967296, which keeps the numbers
\* small; the model's blocks hold whole seconds, so the true division is exact.
BlockTimestamp(block) ==
    IF block.has_timestamp THEN Some(block.timestamp)
    ELSE IF block.has_high_low
         THEN Some(block.timestamp_high * 4294
                     + (block.timestamp_high * 967296 + block.timestamp_low) \div 1000000)
         ELSE None

\* A normalization that anchors first_timestamp again at every timestamped
\* frame (the variant C1 is checked against).
PcapNormalizeReanchored(timestamp, ft, fw) ==
    IF timestamp # None
    THEN [ first_timestamp |-> timestamp, norm_time |-> Some(0), first_written |-> TRUE ]
    ELSE [ first_timestamp |-> ft, norm_time |-> None, first_written |-> fw ]

\* A normalization that writes the capture timestamp itself for every frame
\* after the first (the variant C18 is checked against).
PcapNormalizeAbsolute(timestamp, ft, fw) ==
    IF timestamp # None
    THEN IF ft = None /\ ~fw
         THEN [ first_timestamp |-> timestamp, norm_time |-> Some(0), first_written |-> TRUE ]
         ELSE [ first_timestamp |-> ft, norm_time |-> timestamp, first_written |-> fw ]
    ELSE [ first_timestamp |-> ft, norm_time |-> None, first_written |-> fw ]

\* "Normalize time to first sample": the new first_timestamp, norm_time and
\* first_written.
PcapNormalize(timestamp, ft, fw) ==
    IF timestamp # None
    THEN IF ft = None /\ ~fw
         THEN [ first_timestamp |-> timestamp, norm_time |-> Some(0), first_written |-> TRUE ]
         ELSE [ first_timestamp |-> ft,
                norm_time |-> Some(Val(timestamp) - Val(ft)),
                first_written |-> fw ]
    ELSE [ first_timestamp |-> ft, norm_time |-> None, first_written |-> fw ]

eth_header_len == 14

udp_header_len == 8

Skipped(why) == [ verdict |-> why, data_start |-> -1, payload |-> << >> ]

Sliced(start, packet) ==
    [ verdict |-> "payload", data_start |-> start, payload |-> PySliceFrom(packet, start) ]

\* No length check before the TCP header is read (the variant C4 is checked
\* against).
TcpHeaderUnchecked(packet, tcp_header_start) == FALSE

\* `if len(packet) < tcp_header_start + 20: continue`
TcpHeaderMissing(packet, tcp_header_start) == Len(packet) < tcp_header_start + 20

\* A TCP branch that takes the low nibble of the data-offset byte (the
\* variant C5 is checked against).
TcpPayloadLowNibble(packet, ip_header_len) ==
    LET tcp_header_start == eth_header_len + ip_header_len
        tcp_header == PySlice(packet, tcp_header_start, tcp_header_start + 20)
        offset_byte == PyIndex(tcp_header, 12)
        tcp_header_len == (offset_byte % 16) * 4
    IN  IF Len(packet) < tcp_header_start + 20 THEN Skipped("short_tcp")
        ELSE IF offset_byte < 0 THEN Skipped("IndexError")
        ELSE Sliced(tcp_header_start + tcp_header_len, packet)

\* The TCP branch.
TcpPayload(packet, ip_header_len) ==
    LET tcp_header_start == eth_header_len + ip_header_len
        tcp_header == PySlice(packet, tcp_header_start, tcp_header_start + 20)
        offset_byte == PyIndex(tcp_header, 12)
        tcp_header_len == ((offset_byte \div 16) % 16) * 4
    IN  IF TcpHeaderMissing(packet, tcp_header_start) THEN Skipped("short_tcp")
        ELSE IF offset_byte < 0 THEN Skipped("IndexError")
        ELSE Sliced(tcp_header_start + tcp_header_len, packet)

\* The UDP branch.
UdpPayload(packet, ip_header_len) ==
    LET udp_header_start == eth_header_len + ip_header_len
    IN  Sliced(udp_header_start + udp_header_len, packet)

\* "For other protocols, just take data after IP header".
OtherPayload(packet, ip_header_len) == Sliced(eth_header_len + ip_header_len, packet)

\* "Extract only the data part (payload)": the length checks, the header
\* lengths and the slice that becomes `data`.
ExtractPayload(packet) ==
    IF Len(packet) < 14 THEN Skipped("short_eth")
    ELSE IF Len(packet) < eth_header_len + 20 THEN Skipped("short_ip")
    ELSE LET ip_header == PySlice(packet, eth_header_len, eth_header_len + 20)
             first_byte == PyIndex(ip_header, 0)
             protocol == PyIndex(ip_header, 9)
             ip_header_len == (first_byte % 16) * 4
         IN  IF first_byte < 0 \/ protocol < 0 THEN Skipped("IndexError")
             ELSE IF protocol = 6 THEN TcpPayload(packet, ip_header_len)
             ELSE IF protocol = 17 THEN UdpPayload(packet, ip_header_len)
             ELSE OtherPayload(packet, ip_header_len)

\* "Remove everything before the first "ng -" (any command)", then the two
\* lstrip calls of analyze_pcap.main.
PcapFramingRecovery(data_str) ==
    LET match == CommandNameSearch(data_str)
        cut == IF match # None
               THEN SubSeq(data_str, Val(match), Len(data_str))
               ELSE LStrip(data_str, LStripChars)
    IN  LStrip(cut, LStripChars)

\* The JSON object written for a packet.
JsonObj(time, src_mac, dst_mac, text) ==
    [ time |-> time, src_mac |-> src_mac, dst_mac |-> dst_mac, data |-> text ]

\* One iteration of `for block in scanner`: what the iteration leaves in
\* first_timestamp, norm_time and first_written, what became of the block,
\* and the lines it writes.
PcapIteration(block, ft, nt, fw) ==
    LET same == [ first_timestamp |-> ft, norm_time |-> nt, first_written |-> fw ]
        nothing == [ data_start |-> -1, payload |-> << >>, data_str |-> << >>,
                     written |-> << >> ]
        packet == Val(block.packet_data)
    IN  IF block.packet_data = None
        THEN same @@ nothing @@ [ verdict |-> "no_packet_data", timestamp |-> None ]
        ELSE IF is_icmp(packet)
        THEN same @@ nothing @@ [ verdict |-> "icmp", timestamp |-> None ]
        ELSE LET timestamp == BlockTimestamp(block)
                 norm == PcapNormalize(timestamp, ft, fw)
                 sliced == ExtractPayload(packet)
                 text == Decode(sliced.payload)
                 recovered == PcapFramingRecovery(text)
                 obj == JsonObj(norm.norm_time,
                                mac_addr(PySlice(packet, 6, 12)),
                                mac_addr(PySlice(packet, 0, 6)),
                                clean_string(recovered))
             IN  IF sliced.verdict # "payload"
                 THEN norm @@ nothing @@ [ verdict |-> sliced.verdict, timestamp |-> timestamp ]
                 ELSE IF ~pcap_packet_contains_data(Encode(text), PCAP_SUBSTRINGS)
                 THEN norm @@ [ verdict |-> "no_match", timestamp |-> timestamp,
                                data_start |-> sliced.data_start, payload |-> sliced.payload,
                                data_str |-> text, written |-> << >> ]
                 ELSE norm @@ [ verdict |-> "written", timestamp |-> timestamp,
                                data_start |-> sliced.data_start, payload |-> sliced.payload,
                                data_str |-> recovered, written |-> << obj >> ]

(***************************************************************************)
(* The capture source: the blocks a capture file can hold.  A frame is     *)
(* laid out as Ethernet header, IPv4 header (with options when IHL > 5),   *)
(* transport header (TCP with options when the data offset > 5, UDP, or    *)
(* none) and payload, and may be truncated.                                *)
(***************************************************************************)
Zeros(n) == [ i \in 1..n |-> 0 ]

Extra(words) == IF words > 5 THEN Zeros(4 * (words - 5)) ELSE << >>

DstMac == << 170, 187, 204, 221, 238, 255 >>

SrcMac == << 0, 17, 34, 51, 68, 85 >>

EthHeader(eth) == DstMac \o SrcMac \o << eth \div 256, eth % 256 >>

IpHeader(ihl, proto) ==
    << 64 + ihl, 0, 0, 60, 0, 0, 0, 0, 64, proto, 0, 0, 10, 0, 0, 1, 10, 0, 0, 2 >>
        \o Extra(ihl)

TransportHeader(proto, doff) ==
    IF proto = 6
    THEN << 39, 15, 34, 184, 0, 0, 0, 1, 0, 0, 0, 1, doff * 16, 24, 2, 0, 0, 0, 0, 0 >>
             \o Extra(doff)
    ELSE IF proto = 17 THEN << 39, 15, 34, 184, 0, 20, 0, 0 >>
    ELSE << >>

MkFrame(eth, ihl, proto, doff, text, cut) ==
    LET whole == EthHeader(eth) \o IpHeader(ihl, proto) \o TransportHeader(proto, doff)
                     \o Encode(text)
    IN  IF cut < Len(whole) THEN SubSeq(whole, 1, cut) ELSE whole

PacketBlock(packet, t) ==
    [ packet_data |-> Some(packet), has_timestamp |-> TRUE, timestamp |-> t,
      has_high_low |-> TRUE, timestamp_high |-> 0, timestamp_low |-> t * 1000000 ]

HighLowBlock(packet, high, low) ==
    [ packet_data |-> Some(packet), has_timestamp |-> FALSE, timestamp |-> 0,
      has_high_low |-> TRUE, timestamp_high |-> high, timestamp_low |-> low ]

UntimedBlock(packet) ==
    [ packet_data |-> Some(packet), has_timestamp |-> FALSE, timestamp |-> 0,
      has_high_low |-> FALSE, timestamp_high |-> 0, timestamp_low |-> 0 ]

\* A block that is no packet (a section header, an interface description).
OtherBlock ==
    [ packet_data |-> None, has_timestamp |-> FALSE, timestamp |-> 0,
      has_high_low |-> FALSE, timestamp_high |-> 0, timestamp_low |-> 0 ]

NoBlock == [ packet_data |-> None ]

PayloadTexts ==
    { Str("junkng -d --b [x]"), Str("ng -x ng -s [y]"), Str("hello"),
      << "x00", "x09" >> \o Str("ng") \o << "x0A" >> \o Str("-p ng -p") }

\* One frame at a time: every header shape, cut at every interesting length.
FrameSamples ==
    { MkFrame(eth, ihl, proto, doff, text, cut) :
        eth \in { 2048, 34525 }, ihl \in { 0, 5, 6, 15 }, proto \in { 1, 17, 47 },
        doff \in { 5 }, text \in PayloadTexts, cut \in { 13, 14, 30, 33, 34, 42, 200 } }
    \cup
    { MkFrame(eth, ihl, 6, doff, text, cut) :
        eth \in { 2048 }, ihl \in { 0, 5, 6, 15 }, doff \in { 0, 5, 6, 15 },
        text \in PayloadTexts, cut \in { 30, 34, 46, 53, 54, 57, 58, 200 } }

\* A run of blocks: a relevant frame, an irrelevant one, ICMP, short frames.
RunFrames ==
    { MkFrame(2048, 5, 17, 5, Str("junkng -d --b [x]"), 200),
      MkFrame(2048, 5, 17, 5, Str("hello"), 200),
      MkFrame(2048, 5, 1, 5, Str("ng -d ping"), 200),
      MkFrame(2048, 5, 1, 5, Str("ng -d ping"), 30),
      MkFrame(2048, 5, 17, 5, Str("ng -d"), 10) }

RunTimes == { 3, 5 }

\* A frame with other addresses in its Ethernet header.
Readdressed(frame, dst, src) == dst \o src \o SubSeq(frame, 13, Len(frame))

PublishPayload == Str("ng -p --notify 0.1 [ <1 s 18> <1 s file.txt> ]")

\* Frames for the whole path from a frame to the records of
\* plot_sequence.parse_records: Ethernet + IPv4 + UDP or TCP, with commands
\* p and scn, an unknown command, a binding command, and noise.
EndToEndTexts ==
    { PublishPayload,
      Str("xxng -p --notify 0.1 [ <1 s 18> <1 s photo.jpg> ]"),
      Str("ng -m --cl 0.1 [ < 1 s 0A1B2C3D > < 4 s 11111111 22222222 AAAA0001 33333333 >")
        \o Str(" < 4 s 44444444 55555555 BBBB0002 66666666 > ] ") \o PublishPayload,
      Str("ng -scn --seq 0.1 [ < 1 s 0A1B2C3D > ] ng -px --y [ < 1 s 18 > ]"),
      Str("hello") }

EndToEndAddresses ==
    { << DstMac, SrcMac >>,
      << << 255, 255, 255, 255, 255, 255 >>, << 10, 11, 12, 160, 176, 9 >> >>,
      << << 1, 35, 69, 103, 137, 171 >>, << 205, 239, 0, 250, 206, 15 >> >> }

EndToEndBlocks ==
    { PacketBlock(Readdressed(MkFrame(2048, 5, proto, 5, text, 400), a[1], a[2]), t) :
        proto \in { 6, 17 }, text \in EndToEndTexts, a \in EndToEndAddresses,
        t \in RunTimes }

CaptureBlocks(which) ==
    IF which = "frames"
    THEN { PacketBlock(f, 5) : f \in FrameSamples }
    ELSE IF which = "end_to_end" THEN EndToEndBlocks
    ELSE { PacketBlock(f, t) : f \in RunFrames, t \in RunTimes }
             \cup { UntimedBlock(f) : f \in RunFrames }
             \cup { HighLowBlock(MkFrame(2048, 5, 17, 5, Str("junkng -d --b [x]"), 200),
                                 0, 4000000),
                    OtherBlock }

CaptureLength(which) == IF which \in { "frames", "end_to_end" } THEN 1 ELSE MaxBlocks

NoLast ==
    [ block |-> NoBlock, verdict |-> "none", timestamp |-> None, data_start |-> -1,
      payload |-> << >>, data_str |-> << >>, marker |-> None ]

TextIdle ==
    /\ substrings = << >>
    /\ data = << >>
    /\ matching = << >>
    /\ parsed = << >>

PlotIdle ==
    /\ records = << >>
    /\ start_time = None
    /\ end_time = None
    /\ diagram = << >>

FilterIdle ==
    /\ in_fp = << >>
    /\ begin_interval = None
    /\ end_interval = None
    /\ relevant = << >>

TimelineIdle ==
    /\ json_file = << >>
    /\ dpid_command_times = << >>

InitPcap(which) ==
    /\ pc = "pcap_loop"
    /\ nblocks = 0
    /\ first_timestamp = None
    /\ norm_time = None
    /\ first_written = FALSE
    /\ out_fp = << >>
    /\ last = NoLast
    /\ capture = which
    /\ filename_bound = FALSE
    /\ TextIdle
    /\ PlotIdle
    /\ FilterIdle
    /\ TimelineIdle
    /\ fault = "none"

\* A write that leaves in the file the lines of this call only (the variant
\* C24 is checked against).
out_fp_rewrite(fp, lines) == lines

\* out_fp.write(json.dumps(json_obj, ensure_ascii=False) + '\n') for each of
\* `lines`: every line goes whole to the end of the file.
out_fp_write(fp, lines) == fp \o lines

\* The iteration reached out_fp.write and the destination rejected it.
WriteRejected(lines) == fault = "write_output" /\ lines # << >>

\* `with open(filename, 'rb') as fp, open(output_file, 'w', ...) as out_fp`,
\* outside any try: an OSError of open leaves main.
PcapOpen ==
    /\ pc = "pcap_open"
    /\ pc' = IF fault = "open_capture" THEN "OSError" ELSE "pcap_loop"
    /\ UNCHANGED << fault, timeline_vars, filter_vars, plot_vars, extractor_vars, text_vars >>

\* analyze_pcap.main, one iteration of `for block in scanner`.  The write is
\* inside `try: ... except Exception: continue`: a rejected write ends the
\* iteration like a skipped frame.
AnalyzePcapBlock ==
    /\ pc = "pcap_loop"
    /\ nblocks < CaptureLength(capture)
    /\ \E block \in CaptureBlocks(capture) :
         LET it == PcapIteration(block, first_timestamp, norm_time, first_written)
         IN  /\ first_timestamp' = it.first_timestamp
             /\ norm_time' = it.norm_time
             /\ first_written' = it.first_written
             /\ out_fp' = IF WriteRejected(it.written) THEN out_fp
                          ELSE out_fp_write(out_fp, it.written)
             /\ last' = [ block |-> block,
                          verdict |-> IF WriteRejected(it.written)
                                      THEN "write_continue" ELSE it.verdict,
                          timestamp |-> it.timestamp, data_start |-> it.data_start,
                          payload |-> it.payload, data_str |-> it.data_str,
                          marker |-> None ]
             /\ pc' = IF it.verdict = "IndexError" THEN "IndexError" ELSE "pcap_loop"
    /\ nblocks' = nblocks + 1
    /\ UNCHANGED << fault, timeline_vars, filter_vars, plot_vars, capture, filename_bound, text_vars >>

\* The scanner is exhausted: the `with` block closes both files.
PcapEndOfCapture ==
    /\ pc = "pcap_loop"
    /\ pc' = "pcap_done"
    /\ UNCHANGED << fault, timeline_vars, filter_vars, plot_vars, extractor_vars, text_vars >>

NextPcap == AnalyzePcapBlock \/ PcapEndOfCapture

Spec == InitPcap("run") /\ [][NextPcap]_vars

SpecFrames == InitPcap("frames") /\ [][NextPcap]_vars

(***************************************************************************)
(* analyze_pcapng.py                                                       *)
(***************************************************************************)
PCAPNG_SUBSTRINGS ==
    << Str("ng -notify "), Str("ng -p "), Str("ng -d "), Str("ng -s "), Str("App") >>

\* A classifier that reports the last configured marker that occurs (the
\* variant C6 is checked against).
pcapng_last_marker(bytes, substrs) ==
    LET data_str == Decode(bytes)
        hits == { k \in 1..Len(substrs) : Contains(data_str, substrs[k]) }
    IN  IF hits = {} THEN None
        ELSE Some(substrs[CHOOSE k \in hits : \A h \in hits : h <= k])

\* packet_contains_data of analyze_pcapng.py: the first configured substring
\* that occurs in the decoded data, or None.
pcapng_packet_contains_data(bytes, substrs) ==
    LET data_str == Decode(bytes)
        hits == { k \in 1..Len(substrs) : Contains(data_str, substrs[k]) }
    IN  IF hits = {} THEN None ELSE Some(substrs[Min(hits)])

\* float(pkt.sniff_timestamp) for the strings of the model: a string of
\* decimal digits is its number, any other string raises ValueError (None).
Digits == Str("0123456789")

DigitValue == [ c \in Range(Digits) |-> (CHOOSE k \in 1..10 : Digits[k] = c) - 1 ]

RECURSIVE Decimal(_)
Decimal(s) ==
    IF s = << >> THEN 0
    ELSE 10 * Decimal(SubSeq(s, 1, Len(s) - 1)) + DigitValue[s[Len(s)]]

ParseFloat(s) ==
    IF s # << >> /\ \A k \in 1..Len(s) : s[k] \in Range(Digits)
    THEN Some(Decimal(s)) ELSE None

\* bytes.fromhex(text): pairs of hexadecimal digits of either case; a digit
\* left over or any other character raises ValueError (None).
HexUpper == Str("0123456789ABCDEF")

HexChars == Range(HexLower) \cup Range(HexUpper)

HexValue ==
    [ c \in HexChars |-> (CHOOSE k \in 1..16 : HexLower[k] = c \/ HexUpper[k] = c) - 1 ]

FromHex(text) ==
    IF Len(text) % 2 = 0 /\ \A k \in 1..Len(text) : text[k] \in HexChars
    THEN Some([ k \in 1..(Len(text) \div 2) |->
                  16 * HexValue[text[2 * k - 1]] + HexValue[text[2 * k]] ])
    ELSE None

\* "Extract UDP payload": pkt.udp.payload.replace(":", ""), fromhex, decode;
\* data_str stays "" when the packet has no payload or fromhex raises.
UdpPayloadText(pkt) ==
    LET hex_payload == SelectSeq(pkt.udp_payload, LAMBDA c : c # ":")
        bytes == FromHex(hex_payload)
    IN  IF pkt.has_udp_payload /\ bytes # None THEN Decode(Val(bytes)) ELSE << >>

\* "Remove the first two characters as requested by the user".
DropTwo(data_str) == IF Len(data_str) >= 2 THEN PySliceFrom(data_str, 2) ELSE data_str

\* The timestamp of the packet: float(sniff_timestamp), None when the packet
\* has none or float raises.
SniffTimestamp(pkt) ==
    IF pkt.has_sniff_timestamp THEN ParseFloat(pkt.sniff_timestamp) ELSE None

\* The normalization of analyze_pcapng.main, for a present timestamp.
PcapngNormalize(current_timestamp, ft) ==
    IF ft = None
    THEN [ first_timestamp |-> current_timestamp, norm_time |-> Some(0) ]
    ELSE [ first_timestamp |-> ft,
           norm_time |-> Some(Val(current_timestamp) - Val(ft)) ]

\* clean_string, "Remove everything before the first "ng -"", clean_string.
PcapngFramingRecovery(data_str) ==
    LET data_str_clean == clean_string(data_str)
        match == CommandNameSearch(data_str_clean)
        cut == IF match # None
               THEN SubSeq(data_str_clean, Val(match), Len(data_str_clean))
               ELSE LStrip(data_str_clean, LStripChars)
    IN  clean_string(cut)

BindingPrefix == Str("ng -m --cl 0.1 [")

\* One iteration of `for pkt in cap`.
PcapngIteration(pkt, ft, nt) ==
    LET current_timestamp == SniffTimestamp(pkt)
        norm == PcapngNormalize(current_timestamp, ft)
        data_str == DropTwo(UdpPayloadText(pkt))
        matching_substring == pcapng_packet_contains_data(Encode(data_str), PCAPNG_SUBSTRINGS)
        data_str_clean == PcapngFramingRecovery(data_str)
        obj == JsonObj(norm.norm_time,
                       IF pkt.has_eth THEN Some(pkt.eth_src) ELSE None,
                       IF pkt.has_eth THEN Some(pkt.eth_dst) ELSE None,
                       data_str_clean)
    IN  IF current_timestamp = None
        THEN [ first_timestamp |-> ft, norm_time |-> nt, verdict |-> "break",
               timestamp |-> None, data_str |-> << >>, marker |-> None, written |-> << >> ]
        ELSE IF matching_substring = None
        THEN norm @@ [ verdict |-> "no_match", timestamp |-> current_timestamp,
                       data_str |-> data_str, marker |-> None, written |-> << >> ]
        ELSE norm @@ [ verdict |-> IF StartsWith(data_str_clean, BindingPrefix)
                                   THEN "written" ELSE "not_binding",
                       timestamp |-> current_timestamp, data_str |-> data_str_clean,
                       marker |-> matching_substring,
                       written |-> IF StartsWith(data_str_clean, BindingPrefix)
                                   THEN << obj >> ELSE << >> ]

\* The packets tshark hands over: UDP packets to port 9999 or 8888.
Pkt(text, stamp) ==
    [ has_eth |-> TRUE, eth_src |-> mac_addr(SrcMac), eth_dst |-> mac_addr(DstMac),
      has_sniff_timestamp |-> TRUE, sniff_timestamp |-> stamp,
      has_udp_payload |-> TRUE, udp_payload |-> mac_addr(Encode(text)) ]

PngTexts ==
    { << "x01", "x02" >> \o Str("ng -m --cl 0.1 [ a ] ng -d --b [ x ]"),
      Str("zzjunkng -m --cl 0.1 [ App ]"),
      Str("zz  App only"),
      Str("zzhello"),
      Str("zzng -d --b [ x ]"),
      Str("zzng -p ng -m --cl 0.1 [ a ]") }

PngPackets ==
    { Pkt(text, stamp) : text \in PngTexts, stamp \in { Str("3"), Str("5") } }
    \cup { Pkt(Str("zzjunkng -m --cl 0.1 [ App ]"), Str("n/a")),
           [ Pkt(Str("zzjunkng -m --cl 0.1 [ App ]"), << >>)
               EXCEPT !.has_sniff_timestamp = FALSE ],
           [ Pkt(Str("zzjunkng -m --cl 0.1 [ App ]"), Str("4"))
               EXCEPT !.has_eth = FALSE ],
           [ Pkt(<< >>, Str("4")) EXCEPT !.has_udp_payload = FALSE ],
           [ Pkt(<< >>, Str("4")) EXCEPT !.udp_payload = Str("6e:6") ] }

\* main reads the global name `filename` before it opens the capture.  The
\* module binds no such name: the call raises NameError unless the importing
\* program has bound it.
InitPcapng ==
    /\ pc = "pcapng_start"
    /\ nblocks = 0
    /\ first_timestamp = None
    /\ norm_time = None
    /\ first_written = FALSE
    /\ out_fp = << >>
    /\ last = NoLast
    /\ capture = "pcapng"
    /\ filename_bound \in BOOLEAN
    /\ TextIdle
    /\ PlotIdle
    /\ FilterIdle
    /\ TimelineIdle
    /\ fault = "none"

\* The print of line 38, then `try: with pyshark.FileCapture(...) as cap:
\* with open(output_json, 'w', ...) as out_fp:`.  An error of either open is
\* caught by `except FileNotFoundError` / `except Exception`, which print it;
\* main then goes on to "Packet analysis finished." and the filter.
PcapngStart ==
    /\ pc = "pcapng_start"
    /\ pc' = IF ~filename_bound THEN "NameError"
             ELSE IF fault = "open_capture" THEN "pcapng_finished"
             ELSE "pcapng_loop"
    /\ UNCHANGED << fault, timeline_vars, filter_vars, plot_vars, extractor_vars, text_vars >>

\* One iteration of `for pkt in cap`.  A rejected write raises inside the
\* outer try: `except Exception` prints it and the loop is over.
AnalyzePcapngPacket ==
    /\ pc = "pcapng_loop"
    /\ nblocks < MaxBlocks
    /\ \E pkt \in PngPackets :
         LET it == PcapngIteration(pkt, first_timestamp, norm_time)
         IN  /\ first_timestamp' = it.first_timestamp
             /\ norm_time' = it.norm_time
             /\ out_fp' = IF WriteRejected(it.written) THEN out_fp
                          ELSE out_fp_write(out_fp, it.written)
             /\ last' = [ block |-> pkt,
                          verdict |-> IF WriteRejected(it.written)
                                      THEN "write_printed" ELSE it.verdict,
                          timestamp |-> it.timestamp, data_start |-> -1,
                          payload |-> << >>, data_str |-> it.data_str,
                          marker |-> it.marker ]
             /\ pc' = IF it.verdict = "break" \/ WriteRejected(it.written)
                      THEN "pcapng_finished" ELSE "pcapng_loop"
    /\ nblocks' = nblocks + 1
    /\ UNCHANGED << fault, timeline_vars, filter_vars, plot_vars, first_written, capture, filename_bound, text_vars >>

\* The capture is exhausted: "Packet analysis finished."
PcapngEndOfCapture ==
    /\ pc = "pcapng_loop"
    /\ pc' = "pcapng_finished"
    /\ UNCHANGED << fault, timeline_vars, filter_vars, plot_vars, extractor_vars, text_vars >>

NextPcapng == PcapngStart \/ AnalyzePcapngPacket \/ PcapngEndOfCapture

SpecPcapng == InitPcapng /\ [][NextPcapng]_vars

\* Both extractors, each run from its start.
SpecExtractors == (InitPcap("run") \/ InitPcapng) /\ [][NextPcap \/ NextPcapng]_vars

\* Both extractors, analyze_pcap on one frame of every shape.
SpecRecovery == (InitPcap("frames") \/ InitPcapng) /\ [][NextPcap \/ NextPcapng]_vars

(***************************************************************************)
(* The claims about the extractors.                                        *)
(***************************************************************************)
\* The step consumed a frame whose timestamp reached the normalization.
TimestampedStep == nblocks' = nblocks + 1 /\ last'.timestamp # None

LastPacket == Val(last.block.packet_data)

LastIsPacket == capture \in { "run", "frames" } /\ last.block.packet_data # None

\* C2: a frame whose EtherType (bytes 12-13) is not 0x0800 is skipped by
\* analyze_pcap.main: no record is written for it.
C2_NonIPv4Skipped ==
    (LastIsPacket /\ Len(LastPacket) >= 14
        /\ LastPacket[13] * 256 + LastPacket[14] # 2048)
    => (last.verdict # "written" /\ out_fp = << >>)

\* An IPv4 frame whose protocol byte (offset 23) is 1, of whatever length
\* lets the byte be read.
IcmpFrame(block) ==
    /\ block.packet_data # None
    /\ Len(Val(block.packet_data)) >= 24
    /\ Val(block.packet_data)[13] = 8
    /\ Val(block.packet_data)[14] = 0
    /\ Val(block.packet_data)[24] = 1

\* C3: an ICMP frame of any length is discarded before any other work: the
\* iteration writes no record and changes neither first_timestamp nor any
\* other state of the run.
C3_IcmpDiscarded ==
    [][ (pc = "pcap_loop" /\ nblocks' = nblocks + 1 /\ IcmpFrame(last'.block))
        => UNCHANGED << first_timestamp, norm_time, first_written, out_fp >> ]_vars

\* The header fields of a frame, read where the frame is long enough.
IhlOf(p) == p[15] % 16

ProtocolOf(p) == p[24]

DataOffsetOf(p) == p[14 + 4 * IhlOf(p) + 13] \div 16

TooShort(p) ==
    \/ Len(p) < 14
    \/ Len(p) >= 15 /\ Len(p) < 14 + 4 * IhlOf(p)
    \/ /\ Len(p) >= 24
       /\ ProtocolOf(p) = 6
       /\ \/ Len(p) < 14 + 4 * IhlOf(p) + 20
          \/ Len(p) < 14 + 4 * IhlOf(p) + 4 * DataOffsetOf(p)
    \/ Len(p) >= 24 /\ ProtocolOf(p) = 17 /\ Len(p) < 14 + 4 * IhlOf(p) + 8

\* C4: a frame shorter than 14 bytes, shorter than 14 + 4*IHL, or too short
\* for its transport header (TCP: 20 bytes and the data-offset length, UDP:
\* 8 bytes) is skipped: no record is written and no read is out of range.
C4_ShortFramesSkipped ==
    (LastIsPacket /\ TooShort(LastPacket))
    => /\ last.verdict \notin { "written", "IndexError" }
       /\ pc # "IndexError"
       /\ out_fp = << >>

\* A TCP frame that holds the 20-byte header but not the header length its
\* data offset announces reaches the decoder with an empty payload.
C4_Witness ==
    /\ LastIsPacket
    /\ Len(LastPacket) >= 54
    /\ ProtocolOf(LastPacket) = 6
    /\ TooShort(LastPacket)
    /\ last.verdict = "no_match"
    /\ last.payload = << >>

TransportLength(p) ==
    IF ProtocolOf(p) = 6 THEN 4 * DataOffsetOf(p)
    ELSE IF ProtocolOf(p) = 17 THEN 8
    ELSE 0

\* C5: the payload handed to the decoder starts at offset 14 + 4*IHL + T,
\* T = 4 * (high nibble of TCP header byte 12) for protocol 6, 8 for protocol
\* 17 and 0 for any other protocol, and runs to the end of the frame.
C5_PayloadOffset ==
    (LastIsPacket /\ last.verdict \in { "no_match", "written" })
    => LET offset == 14 + 4 * IhlOf(LastPacket) + TransportLength(LastPacket)
       IN  /\ last.data_start = offset
           /\ last.payload =
                [ k \in 1..(Len(LastPacket) - offset) |-> LastPacket[offset + k] ]

\* A TCP frame with IP options and TCP options whose payload is written.
C5_Witness ==
    /\ LastIsPacket
    /\ last.verdict = "written"
    /\ ProtocolOf(LastPacket) = 6
    /\ IhlOf(LastPacket) = 6
    /\ last.data_start = 62
    /\ out_fp # << >>

\* The text in which the extractor looks for the markers and, for a text
\* that holds one, the data it comes to after framing recovery.
Classified ==
    \/ capture = "frames" /\ last.verdict = "written"
    \/ capture = "pcapng" /\ last.verdict \in { "written", "not_binding" }

ClassifiedText ==
    IF capture = "pcapng" THEN DropTwo(UdpPayloadText(last.block))
    ELSE Decode(last.payload)

ConfiguredMarkers == IF capture = "pcapng" THEN PCAPNG_SUBSTRINGS ELSE PCAP_SUBSTRINGS

\* Where the matched marker (the first configured one that occurs) starts.
MarkerPosition(text) ==
    LET first == Min({ k \in 1..Len(ConfiguredMarkers) :
                         Find(text, ConfiguredMarkers[k]) # {} })
    IN  Min(Find(text, ConfiguredMarkers[first]))

CommandNamePositions(text) == { i \in 1..Len(text) : CommandNameAt(text, i) }

\* t is s without a longest prefix of control and whitespace characters.
LeadingStripped(s, t) ==
    \E k \in 0..Len(s) :
        /\ t = SubSeq(s, k + 1, Len(s))
        /\ \A j \in 1..k : s[j] \in LStripChars
        /\ k < Len(s) => s[k + 1] \notin LStripChars

\* The data of the JSON object built for the text.
EmittedData == IF capture = "pcapng" THEN last.data_str ELSE clean_string(last.data_str)

\* C7 as stated: the data begins at the nearest command-name pattern at or
\* after the matched marker, and a text without any pattern only loses its
\* leading control and whitespace characters (and, as all data written, its
\* non-printable characters).
C7_RecoveryAfterMarker ==
    Classified
    => LET text == ClassifiedText
           after == { i \in CommandNamePositions(text) : i >= MarkerPosition(text) }
       IN  /\ after # {}
               => EmittedData = clean_string(SubSeq(text, Min(after), Len(text)))
           /\ CommandNamePositions(text) = {}
               => LeadingStripped(clean_string(text), EmittedData)

\* C7, amended: the data begins at the first command-name pattern of the
\* text, wherever the marker lies (analyze_pcapng looks for the pattern after
\* it has removed the non-printable characters, analyze_pcap before); without
\* a pattern the text loses its leading control and whitespace characters;
\* the data written is that text without its non-printable characters.
C7_RecoveryAtFirstCommand ==
    Classified
    => LET text == IF capture = "pcapng" THEN clean_string(ClassifiedText)
                   ELSE ClassifiedText
           found == CommandNamePositions(text)
       IN  /\ found # {}
               => EmittedData = clean_string(SubSeq(text, Min(found), Len(text)))
           /\ found = {} => LeadingStripped(clean_string(text), EmittedData)
           /\ last.verdict = "written" => out_fp[Len(out_fp)].data = EmittedData

\* The text of the spec's example: the junk before the command is discarded.
C7_Witness ==
    /\ capture = "frames"
    /\ last.verdict = "written"
    /\ Decode(last.payload) = Str("junkng -d --b [x]")
    /\ out_fp[Len(out_fp)].data = Str("ng -d --b [x]")

\* analyze_pcapng, a marker in a text without a command name: the text loses
\* its leading blanks.
RecoveryWithoutCommand ==
    /\ capture = "pcapng"
    /\ last.verdict = "not_binding"
    /\ CommandNamePositions(clean_string(ClassifiedText)) = {}
    /\ last.data_str = Str("App only")

(***************************************************************************)
(* packet_contains_data on its own: a text and a marker list, classified   *)
(* by both extractors' functions.                                          *)
(***************************************************************************)
MarkerPool == { Str("ng -d "), Str("ng -p "), Str("App"), Str("-d") }

\* The lists of at most n distinct markers of the pool.
RECURSIVE MarkerLists(_)
MarkerLists(n) ==
    IF n = 0 THEN { << >> }
    ELSE MarkerLists(n - 1) \cup
         { Append(l, m) : l \in { x \in MarkerLists(n - 1) : Len(x) = n - 1 },
                          m \in MarkerPool }

DistinctMarkerLists ==
    { l \in MarkerLists(MaxMarkers) : \A i, j \in 1..Len(l) : i # j => l[i] # l[j] }

ClassifyInputs ==
    { Encode(Str("junkng -d --b [x]")), Encode(Str("NG -D --B APP")),
      Encode(Str("xApp ng -p ng -d ")), Encode(Str("hello")), << >>,
      Encode(Str("ng")) \o << 255 >> \o Encode(Str(" -p ")) }

InitClassify ==
    /\ pc = "classify"
    /\ nblocks = 0
    /\ first_timestamp = None
    /\ norm_time = None
    /\ first_written = FALSE
    /\ out_fp = << >>
    /\ last = NoLast
    /\ capture = "none"
    /\ filename_bound = FALSE
    /\ substrings \in DistinctMarkerLists
    /\ data \in ClassifyInputs
    /\ matching = << >>
    /\ parsed = << >>
    /\ PlotIdle
    /\ FilterIdle
    /\ TimelineIdle
    /\ fault = "none"

Classify ==
    /\ pc = "classify"
    /\ pc' = "classified"
    /\ matching' = [ pcap |-> pcap_packet_contains_data(data, substrings),
                     pcapng |-> pcapng_packet_contains_data(data, substrings) ]
    /\ UNCHANGED << fault, timeline_vars, filter_vars, plot_vars, extractor_vars, substrings, data, parsed >>

NextClassify == Classify

SpecClassify == InitClassify /\ [][NextClassify]_vars

\* The marker occurs in the text: some offset at which every character of the
\* marker equals the character of the text, letter case included.
Occurs(marker, text) ==
    \E i \in 0..(Len(text) - Len(marker)) :
        \A j \in 1..Len(marker) : text[i + j] = marker[j]

Reversed(l) == [ k \in 1..Len(l) |-> l[Len(l) + 1 - k] ]

\* C6: a text is accepted iff some configured marker occurs in it as a
\* case-sensitive substring; the marker reported is the first in configured
\* order that occurs; the decision is the same for the markers in another
\* order.
C6_Classify ==
    pc = "classified"
    => LET text == Decode(data)
           hits == { k \in 1..Len(substrings) : Occurs(substrings[k], text) }
       IN  /\ matching.pcap <=> hits # {}
           /\ matching.pcapng # None <=> hits # {}
           /\ hits # {} =>
                /\ matching.pcapng = Some(substrings[Min(hits)])
                /\ \A k \in 1..(Min(hits) - 1) : ~Occurs(substrings[k], text)
           /\ matching.pcap = pcap_packet_contains_data(data, Reversed(substrings))
           /\ (matching.pcapng # None)
                <=> (pcapng_packet_contains_data(data, Reversed(substrings)) # None)

\* Two configured markers occur; the one reported is the first configured,
\* though the other comes first in the text.
C6_Witness ==
    /\ pc = "classified"
    /\ substrings = << Str("ng -d "), Str("App") >>
    /\ data = Encode(Str("xApp ng -p ng -d "))
    /\ matching.pcapng = Some(Str("ng -d "))
    /\ matching.pcap

(***************************************************************************)
(* The parsers of the extracted records: plot_spid_dpid.py,                *)
(* plot_sequence.py and plotmessages.py.  Each reads the `data` of a       *)
(* record with regular expressions; a match is modelled by its positions   *)
(* in the text (1-based, 0 for "no match").                                *)
(***************************************************************************)
\* The first position at or after i that holds the character c, or 0.
FirstAt(text, i, c) ==
    LET at == { k \in i..Len(text) : text[k] = c }
    IN  IF at = {} THEN 0 ELSE Min(at)

\* \[(.*?)\] with the '[' at position open: the position of the first ']'
\* after it, or 0 when there is none or a newline (which '.' does not match)
\* comes first.
BodyClose(text, open) ==
    LET close == FirstAt(text, open + 1, "]")
        newline == FirstAt(text, open + 1, "x0A")
    IN  IF close = 0 \/ (newline # 0 /\ newline < close) THEN 0 ELSE close

NoMatch == [ found |-> FALSE ]

\* ng\s+-[a-zA-Z0-9_-]+[^\[]*\[(.*?)\] matched at position i, with the
\* lookahead (?!m) after the '-' when not_m.  The name is the longest run of
\* name characters; [^\[]* then runs to the first '[', whatever lies between.
CommandAt(text, i, not_m) ==
    LET j == NgDashAt(text, i)
        name_end == SkipName(text, j)
        open == FirstAt(text, name_end, "[")
        close == BodyClose(text, open)
    IN  IF j = 0 \/ name_end = j \/ (not_m /\ text[j] = "m") THEN NoMatch
        ELSE IF open = 0 \/ close = 0 THEN NoMatch
        ELSE [ found |-> TRUE, start |-> i, open |-> open, close |-> close,
               name |-> SubSeq(text, j, name_end - 1),
               cmd_block |-> SubSeq(text, i, open - 1),
               body |-> SubSeq(text, open + 1, close - 1) ]

\* re.findall: the leftmost match at or after pos, then on from its end
\* (as for every findall below).
RECURSIVE FindAllCommands(_, _, _)
FindAllCommands(text, pos, not_m) ==
    LET at == { i \in pos..Len(text) : CommandAt(text, i, not_m).found }
        m == CommandAt(text, Min(at), not_m)
    IN  IF at = {} THEN << >>
        ELSE << m >> \o FindAllCommands(text, m.close + 1, not_m)

\* plot_spid_dpid: re.findall(r'(ng\s+-[a-zA-Z0-9_-]+[^\[]*)\[(.*?)\]', data)
cmd_blocks(text) == FindAllCommands(text, 1, FALSE)

\* plot_sequence, plotmessages:
\* re.findall(r'ng\s+-(?!m)([a-zA-Z0-9_-]+)[^\[]*\[(.*?)\]', data)
other_cmd_blocks(text) == FindAllCommands(text, 1, TRUE)

\* ng\s+-m\s+--cl\s+ matched at i: the position after the last space, or 0.
BindingHeadAt(text, i) ==
    LET j == NgDashAt(text, i)
        k == SkipSpace(text, j + 1)
        l == SkipSpace(text, k + 4)
    IN  IF j = 0 \/ j > Len(text) \/ text[j] # "m" THEN 0
        ELSE IF k = j + 1 \/ PySlice(text, k - 1, k + 3) # Str("--cl") THEN 0
        ELSE IF l = k + 4 THEN 0
        ELSE l

\* plot_sequence, plotmessages:
\* re.search(r'ng\s+-m\s+--cl\s+[^\[]*\[(.*?)\]', data), group 1 or None.
BindingBlockAt(text, i) ==
    LET l == BindingHeadAt(text, i)
        open == FirstAt(text, l, "[")
        close == BodyClose(text, open)
    IN  IF l = 0 \/ open = 0 \/ close = 0 THEN None
        ELSE Some(SubSeq(text, open + 1, close - 1))

\* plot_spid_dpid:
\* re.search(r'ng\s+-m\s+--cl\s+0\.1\s+\[(.*?)\]', data), group 1 or None.
SpidBindingBlockAt(text, i) ==
    LET l == BindingHeadAt(text, i)
        open == SkipSpace(text, l + 3)
        close == BodyClose(text, open)
    IN  IF l = 0 \/ PySlice(text, l - 1, l + 2) # Str("0.1") THEN None
        ELSE IF open = l + 3 \/ open > Len(text) \/ text[open] # "[" THEN None
        ELSE IF close = 0 THEN None
        ELSE Some(SubSeq(text, open + 1, close - 1))

ng_m_match(text) ==
    LET at == { i \in 1..Len(text) : BindingBlockAt(text, i) # None }
    IN  IF at = {} THEN None ELSE BindingBlockAt(text, Min(at))

m_match(text) ==
    LET at == { i \in 1..Len(text) : SpidBindingBlockAt(text, i) # None }
    IN  IF at = {} THEN None ELSE SpidBindingBlockAt(text, Min(at))

\* The first position at or after i that holds no [0-9A-F] character.
RECURSIVE SkipHex(_, _)
SkipHex(text, i) ==
    IF i <= Len(text) /\ text[i] \in UpperHex THEN SkipHex(text, i + 1) ELSE i

\* plot_spid_dpid: re.findall(r'([0-9A-F]{8,})', m_block): the runs of at
\* least eight [0-9A-F] characters.
RECURSIVE HexRuns(_, _)
HexRuns(text, pos) ==
    LET at == { i \in pos..Len(text) : SkipHex(text, i) - i >= 8 }
        stop == SkipHex(text, Min(at))
    IN  IF at = {} THEN << >>
        ELSE << SubSeq(text, Min(at), stop - 1) >> \o HexRuns(text, stop)

\* \w of a str pattern, on ASCII.
WordChars == CodeSet(97, 122) \cup CodeSet(65, 90) \cup CodeSet(48, 57) \cup {"_"}

\* \b([0-9A-F]{8})\b matches at i.
HexWordAt(text, i) ==
    /\ i + 7 <= Len(text)
    /\ \A k \in i..(i + 7) : text[k] \in UpperHex
    /\ i = 1 \/ text[i - 1] \notin WordChars
    /\ i + 8 > Len(text) \/ text[i + 8] \notin WordChars

\* plotmessages: re.findall(r'\b([0-9A-F]{8})\b', vector)
RECURSIVE HexWords(_, _)
HexWords(text, pos) ==
    LET at == { i \in pos..Len(text) : HexWordAt(text, i) }
    IN  IF at = {} THEN << >>
        ELSE << SubSeq(text, Min(at), Min(at) + 7) >> \o HexWords(text, Min(at) + 8)

\* The start of the run of \s characters that ends just before position r.
RECURSIVE SpaceRunStart(_, _, _)
SpaceRunStart(text, r, low) ==
    IF r > low /\ text[r - 1] \in ReSpace THEN SpaceRunStart(text, r - 1, low) ELSE r

\* <\s*(.*?)\s*> matched at position i: group 1 runs from the first
\* character after the leading spaces to the spaces before the first '>'.
VectorAt(text, i) ==
    LET a == SkipSpace(text, i + 1)
        close == FirstAt(text, a, ">")
        e == SpaceRunStart(text, close, a)
        newline == FirstAt(text, a, "x0A")
    IN  IF text[i] # "<" \/ close = 0 \/ (newline # 0 /\ newline < e) THEN NoMatch
        ELSE [ found |-> TRUE, close |-> close, group |-> SubSeq(text, a, e - 1) ]

\* plot_sequence, plotmessages: re.findall(r'<\s*(.*?)\s*>', block_content)
RECURSIVE Vectors(_, _)
Vectors(text, pos) ==
    LET at == { i \in pos..Len(text) : VectorAt(text, i).found }
        m == VectorAt(text, Min(at))
    IN  IF at = {} THEN << >>
        ELSE << m.group >> \o Vectors(text, m.close + 1)

\* \s+([0-9A-F]{8}) matched at position i: the position after it, or 0.
SpacedHexAt(text, i) ==
    LET a == SkipSpace(text, i)
    IN  IF i # 0 /\ a > i /\ a + 7 <= Len(text) /\ \A k \in a..(a + 7) : text[k] \in UpperHex
        THEN a + 8 ELSE 0

\* four_s_pattern of plot_sequence matched at position i:
\* <\s*4\s*s\s+([0-9A-F]{8})\s+([0-9A-F]{8})\s+([0-9A-F]{8})\s+([0-9A-F]{8})
FourSAt(text, i) ==
    LET a == SkipSpace(text, i + 1)
        b == SkipSpace(text, a + 1)
        f1 == SpacedHexAt(text, b + 1)
        f2 == SpacedHexAt(text, f1)
        f3 == SpacedHexAt(text, f2)
        f4 == SpacedHexAt(text, f3)
    IN  IF text[i] # "<" \/ a > Len(text) \/ text[a] # "4" THEN NoMatch
        ELSE IF b > Len(text) \/ text[b] # "s" THEN NoMatch
        ELSE IF f1 = 0 \/ f2 = 0 \/ f3 = 0 \/ f4 = 0 THEN NoMatch
        ELSE [ found |-> TRUE, close |-> f4 - 1,
               group |-> << SubSeq(text, f1 - 8, f1 - 1), SubSeq(text, f2 - 8, f2 - 1),
                            SubSeq(text, f3 - 8, f3 - 1), SubSeq(text, f4 - 8, f4 - 1) >> ]

\* plot_sequence: re.findall(four_s_pattern, block_content)
RECURSIVE FourSMatches(_, _)
FourSMatches(text, pos) ==
    LET at == { i \in pos..Len(text) : FourSAt(text, i).found }
        m == FourSAt(text, Min(at))
    IN  IF at = {} THEN << >>
        ELSE << m.group >> \o FourSMatches(text, m.close + 1)

\* The n-th element of a list when it has one, else None.
Nth(l, n) == IF Len(l) >= n THEN Some(l[n]) ELSE None

Names(tokens) == [ k \in 1..Len(tokens) |-> tokens[k].name ]

\* A parser that checks for three hex groups only and then reads the sixth
\* (the variant C26 is checked against).
SpidDpidRecordThreeGroups(m_block, groups, blocks) ==
    IF m_block = None
    THEN [ appended |-> FALSE, why |-> "no_m_match", hex_groups |-> << >> ]
    ELSE IF Len(groups) < 3
    THEN [ appended |-> FALSE, why |-> "few_hex_groups", hex_groups |-> groups ]
    ELSE IF Len(groups) < 6
    THEN [ appended |-> FALSE, why |-> "IndexError", hex_groups |-> groups ]
    ELSE [ appended |-> TRUE, hex_groups |-> groups,
           s_pid |-> Some(groups[3]), d_pid |-> Some(groups[6]),
           cmd_blocks |-> blocks,
           other_cmds |-> SelectSeq(Names(blocks), LAMBDA c : c # Str("m")) ]

\* plot_spid_dpid.parse_spid_dpid_records, from m_match on: the record
\* appended, or the reason for which the line is skipped.
SpidDpidRecord(m_block, groups, blocks) ==
    IF m_block = None
    THEN [ appended |-> FALSE, why |-> "no_m_match", hex_groups |-> << >> ]
    ELSE IF Len(groups) < 6
    THEN [ appended |-> FALSE, why |-> "few_hex_groups", hex_groups |-> groups ]
    ELSE [ appended |-> TRUE, hex_groups |-> groups,
           s_pid |-> Some(groups[3]), d_pid |-> Some(groups[6]),
           cmd_blocks |-> blocks,
           other_cmds |-> SelectSeq(Names(blocks), LAMBDA c : c # Str("m")) ]

\* hex_groups of the block of m_match (the line is skipped without a match).
hex_groups(m_block) == IF m_block = None THEN << >> ELSE HexRuns(Val(m_block), 1)

\* matches of plot_sequence: searched only `if ng_m_match`.
four_s_matches(block_content) ==
    IF block_content = None THEN << >> ELSE FourSMatches(Val(block_content), 1)

\* vectors of plotmessages: searched only `if ng_m_match`.
block_vectors(block_content) ==
    IF block_content = None THEN << >> ELSE Vectors(Val(block_content), 1)

\* plot_spid_dpid.parse_spid_dpid_records, the body of the loop for one record.
ParseSpidDpid(text) ==
    SpidDpidRecord(m_match(text), hex_groups(m_match(text)), cmd_blocks(text))

\* A record that gives the identifier of a single `< 4 s` vector to d_pid
\* instead of s_pid (the variant C12 is checked against).
SequenceRecordDestinationFirst(block_content, matches, blocks) ==
    [ ng_m_match |-> block_content, matches |-> matches,
      s_pid |-> IF Len(matches) >= 2 THEN Some(matches[1][3]) ELSE None,
      d_pid |-> IF Len(matches) >= 2 THEN Some(matches[2][3])
                ELSE IF Len(matches) = 1 THEN Some(matches[1][3]) ELSE None,
      other_cmd_blocks |-> blocks,
      other_cmds |-> Names(blocks) ]

\* plot_sequence.parse_records, from the four_s_pattern matches on.
SequenceRecord(block_content, matches, blocks) ==
    [ ng_m_match |-> block_content, matches |-> matches,
      s_pid |-> IF Len(matches) >= 1 THEN Some(matches[1][3]) ELSE None,
      d_pid |-> IF Len(matches) >= 2 THEN Some(matches[2][3]) ELSE None,
      other_cmd_blocks |-> blocks,
      other_cmds |-> Names(blocks) ]

\* plot_sequence.parse_records, the body of the loop for one record.
ParseSequence(text) ==
    SequenceRecord(ng_m_match(text), four_s_matches(ng_m_match(text)),
                   other_cmd_blocks(text))

\* The identifiers of the k-th vector, when there are three vectors.
VectorIds(vectors, k) == IF Len(vectors) >= 3 THEN HexWords(vectors[k], 1) ELSE << >>

\* plotmessages.parse_records, from the identifier lists on.
MessagesRecord(block_content, vectors, did_ids, src_ids, dst_ids, blocks) ==
    [ ng_m_match |-> block_content, vectors |-> vectors,
      did_ids |-> did_ids, src_ids |-> src_ids, dst_ids |-> dst_ids,
      did |-> Nth(did_ids, 1),
      s_hid |-> Nth(src_ids, 1), s_osid |-> Nth(src_ids, 2),
      s_pid |-> Nth(src_ids, 3), s_bid |-> Nth(src_ids, 4),
      d_hid |-> Nth(dst_ids, 1), d_osid |-> Nth(dst_ids, 2),
      d_pid |-> Nth(dst_ids, 3), d_bid |-> Nth(dst_ids, 4),
      other_cmd_blocks |-> blocks,
      other_cmds |-> IF Nth(dst_ids, 3) # None THEN Names(blocks) ELSE << >> ]

\* plotmessages.parse_records, from the vectors on.
MessagesVectors(block_content, vectors, blocks) ==
    MessagesRecord(block_content, vectors, VectorIds(vectors, 1), VectorIds(vectors, 2),
                   VectorIds(vectors, 3), blocks)

\* plotmessages.parse_records, the body of the loop for one record.
ParseMessages(text) ==
    MessagesVectors(ng_m_match(text), block_vectors(ng_m_match(text)),
                    other_cmd_blocks(text))

(***************************************************************************)
(* Records for the parsers: the `data` of a line of the extractors'        *)
(* output, made of at most MaxSegments commands and other text.            *)
(***************************************************************************)
\* The binding command with its three vectors: the DID, the four source
\* identifiers and the four destination identifiers.
BindingCommand(did, s_pid, d_pid) ==
    Str("ng -m --cl 0.1 [ < 1 s ") \o did
      \o Str(" > < 4 s 11111111 22222222 ") \o s_pid \o Str(" 33333333 >")
      \o Str(" < 4 s 44444444 55555555 ") \o d_pid \o Str(" 66666666 > ]")

Segments ==
    { BindingCommand(Str("0A1B2C3D"), Str("AAAA0001"), Str("BBBB0002")),
      BindingCommand(Str("0a1b2c3d"), Str("aaaa0001"), Str("bbbb0002")),
      Str("ng -m --cl 0.1 [ < 1 s 0A1B2C3D > ]"),
      Str("ng -m --cl 0.1 [ < 1 s 0A1B2C3D > < 4 s 11111111 22222222 AAAA0001 33333333 > ]"),
      Str("ng -m --cl 0.1 [ < 1 s 0A1B2C3D > < 2 s 11111111 22222222 >")
        \o Str(" < 4 s 44444444 55555555 BBBB0002 66666666 > ]"),
      Str("ng -d --b 0.1 [ < 1 s 18 > < 1 s 0A1B2C3D > ]"),
      Str("ng -p --notify 0.1 [ < 1 s 18 > < 1 s file.txt > ]"),
      Str("ng -msg --x 0.1 [ < 1 s 18 > ]"),
      Str("ng -scn --seq 0.1"),
      Str("noise") }

\* The texts of at most n segments, joined by single spaces.
RECURSIVE SegmentTexts(_)
SegmentTexts(n) ==
    IF n = 0 THEN { << >> }
    ELSE SegmentTexts(n - 1) \cup
         { IF t = << >> THEN seg ELSE t \o Str(" ") \o seg :
             t \in SegmentTexts(n - 1), seg \in Segments }

ParseTexts == SegmentTexts(MaxSegments)

NotParsed == [ spid |-> None, seq |-> None, msgs |-> None ]

InitParse ==
    /\ pc = "parse"
    /\ nblocks = 0
    /\ first_timestamp = None
    /\ norm_time = None
    /\ first_written = FALSE
    /\ out_fp = << >>
    /\ last = NoLast
    /\ capture = "none"
    /\ filename_bound = FALSE
    /\ substrings = << >>
    /\ data \in ParseTexts
    /\ matching = << >>
    /\ parsed = NotParsed
    /\ PlotIdle
    /\ FilterIdle
    /\ TimelineIdle
    /\ fault = "none"

\* plot_spid_dpid.parse_spid_dpid_records reads the record.
ParseSpidDpidRecord ==
    /\ pc = "parse"
    /\ parsed.spid = None
    /\ parsed' = [ parsed EXCEPT !.spid = Some(ParseSpidDpid(data)) ]
    /\ UNCHANGED << fault, timeline_vars, filter_vars, plot_vars, pc, extractor_vars, substrings, data, matching >>

\* plot_sequence.parse_records reads the record.
ParseSequenceRecord ==
    /\ pc = "parse"
    /\ parsed.seq = None
    /\ parsed' = [ parsed EXCEPT !.seq = Some(ParseSequence(data)) ]
    /\ UNCHANGED << fault, timeline_vars, filter_vars, plot_vars, pc, extractor_vars, substrings, data, matching >>

\* plotmessages.parse_records reads the record.
ParseMessagesRecord ==
    /\ pc = "parse"
    /\ parsed.msgs = None
    /\ parsed' = [ parsed EXCEPT !.msgs = Some(ParseMessages(data)) ]
    /\ UNCHANGED << fault, timeline_vars, filter_vars, plot_vars, pc, extractor_vars, substrings, data, matching >>

NextParse == ParseSpidDpidRecord \/ ParseSequenceRecord \/ ParseMessagesRecord

SpecParse == InitParse /\ [][NextParse]_vars

\* The (name, body) pairs of a list of matches.
Tokens(matches) ==
    [ k \in 1..Len(matches) |-> << matches[k].name, matches[k].body >> ]

\* The tokens of a text as the grammar of the commands defines them: each
\* `ng -<name>` whose body opens before the next `ng -<name>`, the body
\* ending at the first ']' after its '['.
RECURSIVE GrammarTokens(_, _)
GrammarTokens(text, pos) ==
    LET markers == { i \in pos..Len(text) : CommandNameAt(text, i) }
        i == Min(markers)
        j == NgDashAt(text, i)
        name_end == SkipName(text, j)
        later == { k \in name_end..Len(text) : CommandNameAt(text, k) }
        limit == IF later = {} THEN Len(text) + 1 ELSE Min(later)
        open == FirstAt(text, name_end, "[")
        close == FirstAt(text, open + 1, "]")
    IN  IF markers = {} THEN << >>
        ELSE IF open = 0 \/ open > limit \/ close = 0
             THEN GrammarTokens(text, name_end)
        ELSE << << SubSeq(text, j, name_end - 1), SubSeq(text, open + 1, close - 1) >> >>
               \o GrammarTokens(text, close + 1)

NotBinding(token) == token[1] # Str("m")

\* C8: the tokenizer yields one token per command of the text, in order, each
\* with its name and body: every command for plot_spid_dpid, every command
\* but the binding command `m` for plot_sequence.
C8_OneTokenPerCommand ==
    pc = "parse"
    => /\ (parsed.spid # None /\ Val(parsed.spid).appended)
            => Tokens(Val(parsed.spid).cmd_blocks) = GrammarTokens(data, 1)
       /\ parsed.seq # None
            => Tokens(Val(parsed.seq).other_cmd_blocks)
                 = SelectSeq(GrammarTokens(data, 1), NotBinding)

\* No `ng -<name>` lies between the start of a match and its '['.
OwnBody(text, matches) ==
    \A k \in 1..Len(matches) :
        \A i \in (matches[k].start + 1)..(matches[k].open - 1) : ~CommandNameAt(text, i)

\* C9: a command that is followed by another command before any '[' is not
\* given the body of that other command.
C9_NoBodyOfNextCommand ==
    pc = "parse"
    => /\ (parsed.spid # None /\ Val(parsed.spid).appended)
            => OwnBody(data, Val(parsed.spid).cmd_blocks)
       /\ parsed.seq # None => OwnBody(data, Val(parsed.seq).other_cmd_blocks)
       /\ parsed.msgs # None => OwnBody(data, Val(parsed.msgs).other_cmd_blocks)

LowerHex == CodeSet(97, 102)

Upper(c) == IF c \in LowerHex THEN Ascii[Ord[c] - 32 + 1] ELSE c

\* A word of exactly eight hexadecimal digits of either case starts at i.
AnyCaseHexWordAt(text, i) ==
    /\ i >= 1
    /\ i + 7 <= Len(text)
    /\ \A k \in i..(i + 7) : text[k] \in UpperHex \cup LowerHex
    /\ i = 1 \/ text[i - 1] \notin WordChars
    /\ i + 8 > Len(text) \/ text[i + 8] \notin WordChars

\* The text with its 8-digit hexadecimal identifiers in uppercase.
Canonical(text) ==
    [ k \in 1..Len(text) |->
        IF \E i \in (k - 7)..k : AnyCaseHexWordAt(text, i) THEN Upper(text[k])
        ELSE text[k] ]

SpidIds(r) == IF r.appended THEN << r.s_pid, r.d_pid >> ELSE << >>

MessagesIds(r) == << r.did_ids, r.src_ids, r.dst_ids >>

\* C10: identifiers are recognised whatever the case of their letters and
\* come out in uppercase: a record gives the identifiers that the same record
\* written in uppercase gives.
C10_HexCaseInsensitive ==
    pc = "parse"
    => /\ parsed.spid # None
            => SpidIds(Val(parsed.spid)) = SpidIds(ParseSpidDpid(Canonical(data)))
       /\ parsed.seq # None
            => Val(parsed.seq).matches = ParseSequence(Canonical(data)).matches
       /\ parsed.msgs # None
            => MessagesIds(Val(parsed.msgs)) = MessagesIds(ParseMessages(Canonical(data)))

\* The texts of the `< ... >` groups of a body, in order.
RECURSIVE GroupTexts(_, _)
GroupTexts(body, pos) ==
    LET open == FirstAt(body, pos, "<")
        close == FirstAt(body, open + 1, ">")
    IN  IF open = 0 \/ close = 0 THEN << >>
        ELSE << SubSeq(body, open + 1, close - 1) >> \o GroupTexts(body, close + 1)

\* The whitespace-separated tokens of a text, in order.
RECURSIVE WhitespaceTokens(_, _)
WhitespaceTokens(text, pos) ==
    LET starts == { i \in pos..Len(text) : text[i] \notin ReSpace }
        ends == { i \in (Min(starts) + 1)..(Len(text) + 1) :
                    i > Len(text) \/ text[i] \in ReSpace }
    IN  IF starts = {} THEN << >>
        ELSE << SubSeq(text, Min(starts), Min(ends) - 1) >>
               \o WhitespaceTokens(text, Min(ends))

IsIdentifier(token) == Len(token) = 8 /\ \A k \in 1..8 : token[k] \in UpperHex

GroupFields(group) == SelectSeq(WhitespaceTokens(group, 1), IsIdentifier)

\* The field list plotmessages makes of the k-th vector: it makes one of the
\* first three vectors only.
ParsedFields(r, k) ==
    IF k = 1 THEN r.did_ids ELSE IF k = 2 THEN r.src_ids
    ELSE IF k = 3 THEN r.dst_ids ELSE << >>

\* C11: for every `< ... >` group of the body of the binding command,
\* plotmessages produces one vector, whose fields are the 8-hex-digit tokens
\* of the group in order (none when the group has none); there are as many
\* vectors as groups.
C11_OneVectorPerGroup ==
    (pc = "parse" /\ parsed.msgs # None /\ Val(parsed.msgs).ng_m_match # None)
    => LET r == Val(parsed.msgs)
           groups == GroupTexts(Val(r.ng_m_match), 1)
       IN  /\ Len(r.vectors) = Len(groups)
           /\ \A k \in 1..Len(groups) : ParsedFields(r, k) = GroupFields(groups[k])

\* The name of the command at position i, or << >>.
NameAt(text, i) ==
    IF CommandNameAt(text, i)
    THEN SubSeq(text, NgDashAt(text, i), SkipName(text, NgDashAt(text, i)) - 1)
    ELSE << >>

\* The text holds the binding command `ng -m`.
HasBinding(text) == \E i \in 1..Len(text) : NameAt(text, i) = Str("m")

SpidPids(r) == IF r.appended THEN << r.s_pid, r.d_pid >> ELSE << None, None >>

\* The (s_pid, d_pid) pairs of the three parsers that have read the record.
ParsedPids ==
    (IF parsed.spid = None THEN {} ELSE { SpidPids(Val(parsed.spid)) })
      \cup (IF parsed.seq = None THEN {}
            ELSE { << Val(parsed.seq).s_pid, Val(parsed.seq).d_pid >> })
      \cup (IF parsed.msgs = None THEN {}
            ELSE { << Val(parsed.msgs).s_pid, Val(parsed.msgs).d_pid >> })

\* C12 as stated: s_pid is never set while d_pid is None, and both are None
\* when the data holds no binding command.
C12_PairOrNothing ==
    pc = "parse"
    => \A pids \in ParsedPids :
          /\ pids[1] # None => pids[2] # None
          /\ ~HasBinding(data) => pids = << None, None >>

\* C12: both identifiers are None when the data holds no binding command.
\* plot_spid_dpid sets both or skips the record; plot_sequence sets d_pid only
\* together with s_pid, and s_pid alone exactly when the binding command has
\* a single `< 4 s` vector of four identifiers; plotmessages sets each of
\* them only when the binding command has three vectors.
C12_BindingIdentifiers ==
    pc = "parse"
    => /\ \A pids \in ParsedPids : ~HasBinding(data) => pids = << None, None >>
       /\ parsed.spid # None
            => LET r == Val(parsed.spid)
               IN  r.appended => (r.s_pid # None /\ r.d_pid # None)
       /\ parsed.seq # None
            => LET r == Val(parsed.seq)
               IN  /\ r.d_pid # None => r.s_pid # None
                   /\ (r.s_pid # None /\ r.d_pid = None) <=> Len(r.matches) = 1
       /\ parsed.msgs # None
            => LET r == Val(parsed.msgs)
               IN  (r.s_pid # None \/ r.d_pid # None) => Len(r.vectors) >= 3

\* plot_sequence has set s_pid and left d_pid None, and plotmessages has set
\* d_pid and left s_pid None.
C12_Witness ==
    /\ pc = "parse"
    /\ parsed.seq # None /\ parsed.msgs # None
    /\ Val(parsed.seq).s_pid = Some(Str("BBBB0002")) /\ Val(parsed.seq).d_pid = None
    /\ Val(parsed.msgs).s_pid = None /\ Val(parsed.msgs).d_pid = Some(Str("BBBB0002"))

(***************************************************************************)
(* plot_sequence.plot_sequence_diagram.  Times are counted in tenths of a  *)
(* second and y positions in halves, so that the arithmetic of the         *)
(* function (time_range * 0.1, steps of 1.0 and 0.5) is exact on integers. *)
(* A record is what parse_records appends: time, s_pid, d_pid and          *)
(* other_cmds; of an entry of other_cmds the model keeps the command and   *)
(* `payload`, the text that the searches of lines 175-202 find in its      *)
(* detailed_info (None when they find nothing).                            *)
(***************************************************************************)
\* `if start_time is not None or end_time is not None:` the records kept.
FilterRecords(recs, st, et) ==
    IF st = None /\ et = None THEN recs
    ELSE SelectSeq(recs, LAMBDA rec :
            /\ rec.time # None
            /\ st = None \/ Val(rec.time) >= Val(st)
            /\ et = None \/ Val(rec.time) <= Val(et))

\* payload_info after the loop over other_cmds: that of the last command
\* for which a search matched.
payload_info(other_cmds) ==
    LET found == { k \in 1..Len(other_cmds) : other_cmds[k].payload # None }
    IN  IF found = {} THEN None
        ELSE other_cmds[CHOOSE k \in found : \A h \in found : h <= k].payload

\* The entry appended to message_data for a record with other_cmds.
Message(rec) ==
    [ time |-> rec.time, s_pid |-> rec.s_pid, d_pid |-> rec.d_pid,
      command_types |-> [ k \in 1..Len(rec.other_cmds) |-> rec.other_cmds[k].command ],
      payload_info |-> payload_info(rec.other_cmds) ]

HasCommands(rec) == rec.other_cmds # << >>

message_data(recs) ==
    LET with == SelectSeq(recs, HasCommands)
    IN  [ k \in 1..Len(with) |-> Message(with[k]) ]

\* The list left in its order (the variant C14 is checked against).
InputOrder(times) == [ r \in 1..Len(times) |-> r ]

\* sorted(..., key=time): the indices of the list in ascending order of
\* time, equal times in the order of the list (sorted is stable).
SortedOrder(times) ==
    LET rank(i) == Cardinality({ j \in 1..Len(times) :
                        \/ Val(times[j]) < Val(times[i])
                        \/ (times[j] = times[i] /\ j < i) }) + 1
    IN  [ r \in 1..Len(times) |-> CHOOSE i \in 1..Len(times) : rank(i) = r ]

Times(msgs) == [ k \in 1..Len(msgs) |-> msgs[k].time ]

Permuted(list, order) == [ r \in 1..Len(order) |-> list[order[r]] ]

sorted_messages(msgs) == Permuted(msgs, SortedOrder(Times(msgs)))

Lowest(times) == CHOOSE t \in Range(times) : \A u \in Range(times) : Val(t) <= Val(u)

Highest(times) == CHOOSE t \in Range(times) : \A u \in Range(times) : Val(u) <= Val(t)

\* The least time of the messages whatever start_time is (the variant C15
\* is checked against).
min_time_of_data(times, st) == Lowest(times)

min_time(times, st) == IF st # None THEN st ELSE Lowest(times)

max_time(times, et) == IF et # None THEN et ELSE Highest(times)

\* The `else 1` of time_range, in tenths.
one_second == 10

time_range(lo, hi) == IF Val(hi) > Val(lo) THEN Val(hi) - Val(lo) ELSE one_second

\* Gaps flagged from the threshold on, not only above it (the variant C16 is
\* checked against).
gap_positions_from_threshold(msgs, range) ==
    { i \in 0..(Len(msgs) - 2) : 10 * (Val(msgs[i + 2].time) - Val(msgs[i + 1].time)) >= range }

\* Gaps compared with time_range itself (the variant C17 is checked against).
gap_positions_whole_range(msgs, range) ==
    { i \in 0..(Len(msgs) - 2) : Val(msgs[i + 2].time) - Val(msgs[i + 1].time) > range }

\* gap_positions: the indices i (from 0) with
\* messages[i+1].time - messages[i].time > time_range * 0.1.
gap_positions(msgs, range) ==
    { i \in 0..(Len(msgs) - 2) : 10 * (Val(msgs[i + 2].time) - Val(msgs[i + 1].time)) > range }

y_max_value == 19

gap_size == 1

spacing == 2

\* y_positions: from y_max down, `spacing` per message and gap_size more
\* before a message that follows a gap.
y_positions(n, gaps) ==
    [ k \in 1..n |->
        y_max_value - spacing * (k - 1)
          - gap_size * Cardinality({ i \in gaps : i + 1 < k }) ]

all_pids(msgs) ==
    { Val(msgs[k].s_pid) : k \in { h \in 1..Len(msgs) : msgs[h].s_pid # None } }
      \cup { Val(msgs[k].d_pid) : k \in { h \in 1..Len(msgs) : msgs[h].d_pid # None } }

\* process_x_map[pid_to_process[pid]]: the processes are numbered in the
\* sorted order of the identifiers and spread from x = 2 to x = 10, a single
\* one at x = 6.  (Identifiers are numbers here, ordered as their strings.)
process_x(pid, pids) ==
    IF Cardinality(pids) = 1 THEN 6
    ELSE 2 + Cardinality({ q \in pids : q < pid }) * (8 \div (Cardinality(pids) - 1))

\* start_x and end_x after the `if s_pid and d_pid ...` of a message: those
\* of its own processes when it has both identifiers, else what they were
\* bound to before (`ends`, None while they are unbound).
Endpoints(msg, pids, ends) ==
    IF msg.s_pid # None /\ msg.d_pid # None
    THEN Some(<< process_x(Val(msg.s_pid), pids), process_x(Val(msg.d_pid), pids) >>)
    ELSE ends

\* What the loop draws for a message at height y with start_x and end_x
\* bound to `ends`: the line and arrowhead, the label, and the payload text
\* between the endpoints.  The line is drawn outside the `if`, so for every
\* message; it raises UnboundLocalError while start_x is unbound.
DrawMessage(msg, y, ends) ==
    IF ends = None
    THEN [ arrow |-> None, raised |-> TRUE, payload_between |-> None ]
    ELSE [ arrow |-> Some(<< Val(ends)[1], Val(ends)[2], y >>), raised |-> FALSE,
           payload_between |-> IF msg.payload_info = None THEN None
                               ELSE Some(<< Val(ends)[1], Val(ends)[2], y >>) ]

\* The loop `for i, msg in enumerate(messages_to_plot)` of lines 351-427 from
\* message k on; it ends at the message that raises.
RECURSIVE DrawMessages(_, _, _, _, _)
DrawMessages(msgs, ys, pids, k, ends) ==
    IF k > Len(msgs) THEN << >>
    ELSE IF Endpoints(msgs[k], pids, ends) = None
    THEN << DrawMessage(msgs[k], ys[k], None) >>
    ELSE << DrawMessage(msgs[k], ys[k], Endpoints(msgs[k], pids, ends)) >>
           \o DrawMessages(msgs, ys, pids, k + 1, Endpoints(msgs[k], pids, ends))

\* y_tick_labels: min_time, then the time of each message, marked when a
\* gap precedes it, then max_time.
y_tick_labels(msgs, gaps, lo, hi) ==
    << [ time |-> lo, gap |-> FALSE ] >>
      \o [ k \in 1..Len(msgs) |-> [ time |-> msgs[k].time, gap |-> (k - 2) \in gaps ] ]
      \o << [ time |-> hi, gap |-> FALSE ] >>

\* The function from the drawing loop on.
DrawnDiagram(msgs, lo, hi, range, gaps, ys, drawn) ==
    [ status |-> IF \E k \in 1..Len(drawn) : drawn[k].raised
                 THEN "UnboundLocalError" ELSE "saved",
      messages_to_plot |-> msgs, min_time |-> lo, max_time |-> hi,
      time_range |-> range, gap_positions |-> gaps, y_positions |-> ys,
      drawn |-> drawn,
      y_tick_labels |-> IF \E k \in 1..Len(drawn) : drawn[k].raised THEN << >>
                        ELSE y_tick_labels(msgs, gaps, lo, hi) ]

\* The function from `sorted_pairs = sorted(zip(messages_to_plot,
\* y_positions), ...)` on.
PairedDiagram(msgs, lo, hi, range, gaps, ys, order) ==
    DrawnDiagram(Permuted(msgs, order), lo, hi, range, gaps, Permuted(ys, order),
                 DrawMessages(Permuted(msgs, order), Permuted(ys, order),
                              all_pids(msgs), 1, None))

\* The function from the computation of the gaps on.
GapsDiagram(msgs, lo, hi, range) ==
    PairedDiagram(msgs, lo, hi, range, gap_positions(msgs, range),
                  y_positions(Len(msgs), gap_positions(msgs, range)),
                  SortedOrder(Times(msgs)))

\* The function from `sorted_messages = sorted(message_data, ...)` on, for
\* messages that all have a time.
TimedDiagram(msgs, st, et) ==
    GapsDiagram(sorted_messages(msgs),
                min_time(Times(msgs), st), max_time(Times(msgs), et),
                time_range(min_time(Times(msgs), st), max_time(Times(msgs), et)))

NoDiagram(status) ==
    [ status |-> status, messages_to_plot |-> << >>, min_time |-> None,
      max_time |-> None, time_range |-> 0, gap_positions |-> {},
      y_positions |-> << >>, drawn |-> << >>, y_tick_labels |-> << >> ]

\* The function from `if not message_data:` on.  A time of None makes the
\* comparisons of sorted (line 218) or of line 234 raise TypeError.
MessagesDiagram(msgs, st, et) ==
    IF msgs = << >> THEN NoDiagram("no_messages")
    ELSE IF \E k \in 1..Len(msgs) : msgs[k].time = None THEN NoDiagram("TypeError")
    ELSE TimedDiagram(msgs, st, et)

plot_sequence_diagram(recs, st, et) ==
    MessagesDiagram(message_data(FilterRecords(recs, st, et)), st, et)

(***************************************************************************)
(* Calls of plot_sequence_diagram: at most MaxMessages records of the      *)
(* samples, in any order, with and without start_time and end_time.        *)
(***************************************************************************)
Cmd(command, payload) == [ command |-> command, payload |-> payload ]

Rec(time, s_pid, d_pid, other_cmds) ==
    [ time |-> time, s_pid |-> s_pid, d_pid |-> d_pid, other_cmds |-> other_cmds ]

RecordSamples ==
    { Rec(Some(0), Some(1), Some(2), << Cmd("d", None) >>),
      Rec(Some(10), Some(1), Some(2), << Cmd("p", Some("file.txt")) >>),
      Rec(Some(11), Some(2), Some(1), << Cmd("d", None) >>),
      Rec(Some(90), Some(1), Some(2), << Cmd("notify", Some("0A1B2C3D")), Cmd("d", None) >>),
      Rec(Some(10), Some(3), None, << Cmd("p", Some("b.txt")) >>),
      Rec(Some(9), None, None, << Cmd("d", None) >>),
      Rec(None, Some(1), Some(2), << Cmd("d", None) >>),
      Rec(Some(3), Some(1), Some(2), << >>) }

\* The lists of at most n records of the samples.
RECURSIVE RecordLists(_)
RecordLists(n) ==
    IF n = 0 THEN { << >> }
    ELSE RecordLists(n - 1) \cup
         { Append(l, rec) : l \in { x \in RecordLists(n - 1) : Len(x) = n - 1 },
                            rec \in RecordSamples }

\* Events at the times 0.0, 1.0, 1.1 and 9.0.
FourEvents ==
    << Rec(Some(0), Some(1), Some(2), << Cmd("d", None) >>),
       Rec(Some(10), Some(1), Some(2), << Cmd("p", Some("file.txt")) >>),
       Rec(Some(11), Some(2), Some(1), << Cmd("d", None) >>),
       Rec(Some(90), Some(1), Some(2), << Cmd("notify", Some("0A1B2C3D")), Cmd("d", None) >>) >>

InitPlot ==
    /\ pc = "plot"
    /\ nblocks = 0
    /\ first_timestamp = None
    /\ norm_time = None
    /\ first_written = FALSE
    /\ out_fp = << >>
    /\ last = NoLast
    /\ capture = "none"
    /\ filename_bound = FALSE
    /\ TextIdle
    /\ records \in RecordLists(MaxMessages) \cup { FourEvents }
    /\ start_time \in { None, Some(5) }
    /\ end_time \in { None, Some(50) }
    /\ diagram = << >>
    /\ FilterIdle
    /\ TimelineIdle
    /\ fault = "none"

\* plot_sequence.main calls plot_sequence_diagram(records, ...).
PlotSequenceDiagram ==
    /\ pc = "plot"
    /\ diagram' = plot_sequence_diagram(records, start_time, end_time)
    /\ pc' = diagram'.status
    /\ UNCHANGED << fault, timeline_vars, filter_vars, extractor_vars, text_vars, records, start_time, end_time >>

NextPlot == PlotSequenceDiagram

SpecPlot == InitPlot /\ [][NextPlot]_vars

\* plot_sequence_diagram has got as far as its messages_to_plot.
Plotted == pc \in { "saved", "UnboundLocalError" }

\* The messages plot_sequence_diagram makes of the records it keeps.
InputMessages == message_data(FilterRecords(records, start_time, end_time))

Unattributed(msg) == msg.s_pid = None \/ msg.d_pid = None

\* C13: for a message whose s_pid or d_pid is None, plot_sequence_diagram
\* draws no arrow, puts nothing between the endpoints of an earlier message,
\* and does not fail.
C13_NoArrowWithoutPair ==
    Plotted
    => /\ pc # "UnboundLocalError"
       /\ \A k \in 1..Len(diagram.drawn) :
            Unattributed(diagram.messages_to_plot[k])
            => (diagram.drawn[k].arrow = None /\ diagram.drawn[k].payload_between = None)

Orderings(n) ==
    { f \in [ 1..n -> 1..n ] : \A i, j \in 1..n : i # j => f[i] # f[j] }

\* C14: the messages plotted are the input messages in ascending order of
\* time, equal times in input order, whatever the order of the input; the
\* time deltas are then >= 0; and y_positions[k] is the position computed
\* for the k-th message: y_max, less the spacing per earlier message, less
\* gap_size per gap up to it.
C14_SortedByTime ==
    Plotted
    => LET out == diagram.messages_to_plot
           n == Len(out)
       IN  /\ \E f \in Orderings(Len(InputMessages)) :
                /\ out = [ r \in 1..n |-> InputMessages[f[r]] ]
                /\ \A r, q \in 1..n :
                     r < q => \/ Val(out[r].time) < Val(out[q].time)
                              \/ (out[r].time = out[q].time /\ f[r] < f[q])
           /\ \A k \in 1..(n - 1) : Val(out[k + 1].time) - Val(out[k].time) >= 0
           /\ Len(diagram.y_positions) = n
           /\ \A k \in 1..n :
                diagram.y_positions[k]
                  = y_max_value - spacing * (k - 1)
                      - gap_size * Cardinality({ i \in 2..k :
                            10 * (Val(out[i].time) - Val(out[i - 1].time))
                              > diagram.time_range })

\* Unsorted input with two messages of equal time: they are plotted after the
\* earlier message, in their input order.
C14_Witness ==
    /\ pc = "saved"
    /\ Len(records) = 3 /\ start_time = None /\ end_time = None
    /\ records[1].time = Some(10) /\ records[1].d_pid = None
    /\ records[2].time = Some(0)
    /\ records[3].time = Some(10) /\ records[3].d_pid # None
    /\ diagram.messages_to_plot
         = << Message(records[2]), Message(records[1]), Message(records[3]) >>

\* max(time) - min(time) over the messages, one second when they do not differ.
DataRange(times) ==
    IF Val(Highest(times)) > Val(Lowest(times))
    THEN Val(Highest(times)) - Val(Lowest(times)) ELSE one_second

\* C15 as stated: time_range is max(time) - min(time) over the events
\* plotted (1.0 for a single event), whether or not start_time and end_time
\* are given.
C15_RangeOfEvents ==
    Plotted => diagram.time_range = DataRange(Times(diagram.messages_to_plot))

\* C15: time_range is max_time - min_time over all the messages plotted
\* together, where min_time is start_time when it is given and the least time
\* otherwise, and max_time is end_time when it is given and the greatest time
\* otherwise; it is one second when max_time does not exceed min_time; the
\* gaps are those above 0.1 * time_range.
C15_RangeOfWindow ==
    Plotted
    => LET times == Times(diagram.messages_to_plot)
           lo == IF start_time # None THEN Val(start_time) ELSE Val(Lowest(times))
           hi == IF end_time # None THEN Val(end_time) ELSE Val(Highest(times))
       IN  /\ diagram.time_range = (IF hi > lo THEN hi - lo ELSE one_second)
           /\ diagram.gap_positions
                = { i \in 0..(Len(times) - 2) :
                      10 * (Val(times[i + 2]) - Val(times[i + 1])) > diagram.time_range }

\* Messages at 1.0 and 1.1 with end_time 5.0: time_range is 4.0, not 0.1,
\* and the delta of 0.1 is no gap.
C15_Witness ==
    /\ pc = "saved"
    /\ start_time = None /\ end_time = Some(50)
    /\ Times(diagram.messages_to_plot) = << Some(10), Some(11) >>
    /\ diagram.time_range = 40
    /\ diagram.gap_positions = {}

\* C16: a gap is recorded before message i iff its time exceeds that of
\* message i-1 by strictly more than the threshold; each gap lowers the
\* messages from i on by gap_size; the messages plotted are the input
\* messages, all of them, in the order of the sort.
C16_GapIffAboveThreshold ==
    Plotted
    => LET out == diagram.messages_to_plot
           ys == diagram.y_positions
       IN  /\ \A i \in 1..(Len(out) - 1) :
                (i - 1) \in diagram.gap_positions
                  <=> 10 * (Val(out[i + 1].time) - Val(out[i].time)) > diagram.time_range
           /\ diagram.gap_positions \subseteq 0..(Len(out) - 2)
           /\ Len(out) >= 1 => ys[1] = y_max_value
           /\ \A i \in 1..(Len(out) - 1) :
                ys[i + 1] = ys[i] - spacing
                              - (IF (i - 1) \in diagram.gap_positions THEN gap_size ELSE 0)
           /\ out = sorted_messages(InputMessages)

\* Messages at 0.0, 0.9 and 9.0: the threshold is 0.9; the delta of 0.9 is
\* no gap, that of 8.1 is one.
C16_Witness ==
    /\ pc = "saved"
    /\ start_time = None /\ end_time = None
    /\ Times(diagram.messages_to_plot) = << Some(0), Some(9), Some(90) >>
    /\ diagram.gap_positions = {1}
    /\ diagram.y_positions = << 19, 17, 14 >>

FourEventsPlotted ==
    /\ pc = "saved"
    /\ records = FourEvents /\ start_time = None /\ end_time = None

\* C17 as stated: for the events at 0.0, 1.0, 1.1 and 9.0 exactly one gap is
\* flagged, the one before the event at 9.0.
C17_OneGap == FourEventsPlotted => diagram.gap_positions = {2}

\* C17: for the events at 0.0, 1.0, 1.1 and 9.0 (time range 9.0, threshold
\* 0.9) two gaps are flagged, before the event at 1.0 (1.0 > 0.9) and before
\* the event at 9.0; none before the event at 1.1.
C17_TwoGaps ==
    FourEventsPlotted
    => /\ diagram.time_range = 90
       /\ diagram.gap_positions = {0, 2}

C17_Witness ==
    /\ FourEventsPlotted
    /\ Times(diagram.messages_to_plot) = << Some(0), Some(10), Some(11), Some(90) >>
    /\ diagram.y_tick_labels[3].gap /\ ~diagram.y_tick_labels[4].gap
    /\ diagram.y_tick_labels[5].gap

(***************************************************************************)
(* The claims about the anchor of the normalized times and about the       *)
(* records the extractors write.                                           *)
(***************************************************************************)
\* The step consumed one frame of the capture (a block with packet data, a
\* packet of the pcapng capture).
FrameStep ==
    /\ nblocks' = nblocks + 1
    /\ (capture = "pcapng" \/ last'.block.packet_data # None)

\* The timestamp the capture holds for a frame, None when it holds none that
\* can be used.
CaptureTime(block) ==
    IF capture = "pcapng" THEN SniffTimestamp(block) ELSE BlockTimestamp(block)

\* The records the step wrote.
Written == SubSeq(out_fp', Len(out_fp) + 1, Len(out_fp'))

\* The records written for a timestamped frame carry its capture time minus
\* the anchor.
RecordTimes ==
    \A k \in 1..Len(Written) :
        Written[k].time = Some(Val(CaptureTime(last'.block)) - Val(first_timestamp'))

\* C18: first_timestamp is set on the first frame of the capture that carries
\* a usable timestamp, whatever becomes of the frame afterwards (filtered as
\* ICMP, too short, not relevant), and is not assigned again; every record
\* written for a timestamped frame has its capture time minus that anchor.
C18_AnchoredAtFirstTimestamp ==
    [][ /\ (FrameStep /\ CaptureTime(last'.block) # None)
            => /\ first_timestamp' = IF first_timestamp = None
                                     THEN CaptureTime(last'.block)
                                     ELSE first_timestamp
               /\ RecordTimes
        /\ (first_timestamp # None => first_timestamp' = first_timestamp) ]_vars

\* C18, as the code has it: the frames analyze_pcap.main skips at is_icmp
\* (ICMP frames of at least 34 bytes) never reach the timestamp code; the
\* first other frame with a usable timestamp sets first_timestamp, whatever
\* becomes of it afterwards.
C18_AnchoredAtFirstNormalized ==
    [][ /\ (FrameStep /\ CaptureTime(last'.block) # None /\ last'.verdict # "icmp")
            => /\ first_timestamp' = IF first_timestamp = None
                                     THEN CaptureTime(last'.block)
                                     ELSE first_timestamp
               /\ RecordTimes
        /\ (FrameStep /\ last'.verdict = "icmp")
            => UNCHANGED << first_timestamp, out_fp >>
        /\ (first_timestamp # None => first_timestamp' = first_timestamp) ]_vars

\* A frame stamped 5 that wrote no record set the anchor, and the one record
\* of the run, of a later frame stamped 3, has time -2.
C18_Witness ==
    /\ capture = "run"
    /\ nblocks = 2
    /\ first_timestamp = Some(5)
    /\ last.verdict = "written"
    /\ last.timestamp = Some(3)
    /\ Len(out_fp) = 1
    /\ out_fp[1].time = Some(-2)

\* C19: in both extractors a frame with no usable timestamp leaves
\* first_timestamp unchanged, a record written for it has time None (null),
\* and the run goes on with the next frame.
C19_UntimedFrame ==
    [][ (FrameStep /\ CaptureTime(last'.block) = None)
            => /\ first_timestamp' = first_timestamp
               /\ \A k \in 1..Len(Written) : Written[k].time = None
               /\ pc' = pc ]_vars

\* The frame passed slicing and the relevance check of its extractor.
Accepted(block) ==
    IF capture = "pcapng"
    THEN \E k \in 1..Len(PCAPNG_SUBSTRINGS) :
            Contains(DropTwo(UdpPayloadText(block)), PCAPNG_SUBSTRINGS[k])
    ELSE /\ block.packet_data # None
         /\ ~is_icmp(Val(block.packet_data))
         /\ ExtractPayload(Val(block.packet_data)).verdict = "payload"
         /\ \E k \in 1..Len(PCAP_SUBSTRINGS) :
               Contains(Decode(ExtractPayload(Val(block.packet_data)).payload),
                        PCAP_SUBSTRINGS[k])

\* C20: the extractor appends exactly one record for every frame that passes
\* slicing and the relevance check and none for any other frame, after the
\* records of the earlier frames; the record's data holds printable
\* characters only.
C20_OneRecordPerAcceptedFrame ==
    [][ (nblocks' = nblocks + 1)
            => /\ Len(out_fp') = Len(out_fp) + (IF Accepted(last'.block) THEN 1 ELSE 0)
               /\ SubSeq(out_fp', 1, Len(out_fp)) = out_fp
               /\ \A k \in 1..Len(Written) : Range(Written[k].data) \subseteq Printable ]_vars

(***************************************************************************)
(* filter.py                                                               *)
(***************************************************************************)
FILTER_SUBSTRINGS == << Str("ng -notify"), Str("ng -p"), Str("ng -d") >>

\* `decision`: any(sub in data_str for sub in SUBSTRINGS).
decision(data_str) ==
    \E k \in 1..Len(FILTER_SUBSTRINGS) : Contains(data_str, FILTER_SUBSTRINGS[k])

\* The first loop: the objects of the lines json.loads accepts whose data
\* holds a substring, in the order of the file.  A line that is no JSON
\* object raises and is skipped.
relevant_objs(lines) ==
    SelectSeq(lines, LAMBDA line : line # None /\ decision(Val(line).data))

\* A filter whose interval excludes its end (the variant C21 is checked
\* against).
KeptBeforeEnd(obj, begin, end) ==
    /\ obj.time # None
    /\ ~(begin # None /\ Val(obj.time) < Val(begin))
    /\ ~(end # None /\ Val(obj.time) >= Val(end))

\* The second loop, for one object: it is written unless its time is None,
\* float(t) < begin_interval or float(t) > end_interval.
Kept(obj, begin, end) ==
    /\ obj.time # None
    /\ ~(begin # None /\ Val(obj.time) < Val(begin))
    /\ ~(end # None /\ Val(obj.time) > Val(end))

\* The objects of a list of parsed lines.
Objects(lines) == [ k \in 1..Len(lines) |-> Val(lines[k]) ]

\* filter_relevant_messages: the lines written to output_file (none, into an
\* empty file, when there are no relevant objects).
filter_relevant_messages(lines, begin, end) ==
    SelectSeq(Objects(relevant_objs(lines)), LAMBDA obj : Kept(obj, begin, end))

\* The lines of an input file: records as the extractors write them, with a
\* time or null, and a line that is no JSON.
FilterLines ==
    { Some(JsonObj(t, mac_addr(SrcMac), mac_addr(DstMac), text)) :
        t \in { None, Some(0), Some(5), Some(10) },
        text \in { Str("ng -d --b [x]"), Str("hello") } }
    \cup { Some(JsonObj(Some(7), mac_addr(SrcMac), mac_addr(DstMac), Str("ng -notify"))),
           None }

LineLists(n) ==
    UNION { [ 1..k -> FilterLines ] : k \in 0..n }

InitFilter ==
    /\ pc = "filter"
    /\ nblocks = 0
    /\ first_timestamp = None
    /\ norm_time = None
    /\ first_written = FALSE
    /\ out_fp = << >>
    /\ last = NoLast
    /\ capture = "none"
    /\ filename_bound = FALSE
    /\ TextIdle
    /\ PlotIdle
    /\ in_fp \in LineLists(MaxLines)
    /\ begin_interval \in { None, Some(0), Some(5) }
    /\ end_interval \in { None, Some(5), Some(7) }
    /\ relevant = << >>
    /\ TimelineIdle
    /\ fault = "none"

\* filter.main calls filter_relevant_messages with the arguments of the
\* command line.
FilterRelevantMessages ==
    /\ pc = "filter"
    /\ relevant' = filter_relevant_messages(in_fp, begin_interval, end_interval)
    /\ pc' = "filtered"
    /\ UNCHANGED << fault, timeline_vars, plot_vars, extractor_vars, text_vars,
                    in_fp, begin_interval, end_interval >>

NextFilter == FilterRelevantMessages

SpecFilter == InitFilter /\ [][NextFilter]_vars

\* The records of the input that hold a marker, in input order.
MarkedRecords ==
    SelectSeq(in_fp, LAMBDA line :
        /\ line # None
        /\ \E marker \in { Str("ng -notify"), Str("ng -p"), Str("ng -d") } :
              \E i \in 1..Len(Val(line).data) :
                  PySlice(Val(line).data, i - 1, i - 1 + Len(marker)) = marker)

C28_NoIntervalKeepsUntimed ==
    (pc = "filtered" /\ begin_interval = None /\ end_interval = None)
    => relevant = Objects(MarkedRecords)

(***************************************************************************)
(* analyze_pcap.main to the end of the capture.  The loop is the only      *)
(* thing the program does: it takes the next block whenever the scanner    *)
(* has one and leaves the `with` block when it has none.                   *)
(***************************************************************************)
SpecPcapRun ==
    /\ (InitPcap("run") \/ InitPcap("frames"))
    /\ [][NextPcap]_vars
    /\ WF_vars(NextPcap)

\* C22: in analyze_pcap.main no frame aborts the run: whatever bytes a frame
\* holds, the iteration writes one record or none and leaves the program in
\* its loop, and the run goes on to the end of the capture.
C22_NoFrameAborts ==
    /\ [][ (pc = "pcap_loop" /\ nblocks' = nblocks + 1)
             => /\ pc' = "pcap_loop"
                /\ Len(out_fp') \in { Len(out_fp), Len(out_fp) + 1 } ]_vars
    /\ <>(pc = "pcap_done")

\* Two frames were dropped, a third produced the one record of the run, and
\* the capture was read to its end.
C22_Witness ==
    /\ capture = "run"
    /\ pc = "pcap_done"
    /\ nblocks = 3
    /\ last.verdict = "written"
    /\ Len(out_fp) = 1

(***************************************************************************)
(* The extractors when a call to the file system fails: the capture cannot *)
(* be opened, or the output file rejects a write.                          *)
(***************************************************************************)
Faults == { "none", "open_capture", "write_output" }

InitFaults ==
    /\ pc \in { "pcap_open", "pcapng_start" }
    /\ capture = IF pc = "pcap_open" THEN "run" ELSE "pcapng"
    /\ filename_bound = (pc = "pcapng_start")
    /\ nblocks = 0
    /\ first_timestamp = None
    /\ norm_time = None
    /\ first_written = FALSE
    /\ out_fp = << >>
    /\ last = NoLast
    /\ TextIdle
    /\ PlotIdle
    /\ FilterIdle
    /\ TimelineIdle
    /\ fault \in Faults

NextFaults == PcapOpen \/ NextPcap \/ NextPcapng

SpecFaults == InitFaults /\ [][NextFaults]_vars

\* C23: when the capture cannot be opened or the output rejects a write, the
\* error leaves the extractor and the run stops: it does not become a skipped
\* frame, a printed message or a run that goes on.
C23_FatalErrorsPropagate ==
    [][ /\ (fault = "open_capture" /\ pc \in { "pcap_open", "pcapng_start" } /\ pc' # pc)
            => pc' = "OSError"
        /\ (fault = "write_output" /\ nblocks' = nblocks + 1
                /\ last'.verdict \in { "written", "write_continue", "write_printed" })
            => pc' = "OSError" ]_vars

\* C24: between two frames the output holds whole records only, and what a
\* frame adds comes after everything written before: the output after any
\* frame is a prefix of the output after every later one.
C24_OutputIsPrefix ==
    [][ /\ Len(out_fp') >= Len(out_fp)
        /\ SubSeq(out_fp', 1, Len(out_fp)) = out_fp
        /\ \A k \in 1..Len(out_fp') :
              DOMAIN out_fp'[k] = { "time", "src_mac", "dst_mac", "data" } ]_vars

\* Two records are in the output and the frame after them wrote nothing.
C24_Witness ==
    /\ nblocks = 3
    /\ Len(out_fp) = 2
    /\ last.verdict \notin { "written", "none" }

(***************************************************************************)
(* From a frame to the records of plot_sequence.parse_records:             *)
(* analyze_pcap.main writes extracted_data.json, parse_records reads it.   *)
(***************************************************************************)
NotSpaceOrGt(c) == c \notin ReSpace /\ c # ">"

\* [^\s>]+?<ext> matched at i: the position after the shortest match, or 0.
FileNameEnd(block, i, ext) ==
    LET ends == { n \in 1..(Len(block) - i) :
                    /\ \A k \in i..(i + n - 1) : NotSpaceOrGt(block[k])
                    /\ PySlice(block, i + n - 1, i + n - 1 + Len(ext)) = ext }
    IN  IF ends = {} THEN 0 ELSE i + Min(ends) + Len(ext)

\* Where ([^\s>]+?\.txt|[^\s>]+?\.jpg) matches at i, the first alternative
\* first.
PublishedFileEnd(block, i) ==
    IF FileNameEnd(block, i, Str(".txt")) > 0 THEN FileNameEnd(block, i, Str(".txt"))
    ELSE FileNameEnd(block, i, Str(".jpg"))

\* re.search(r'([^\s>]+?\.txt|[^\s>]+?\.jpg)', block): group 1, or None.
file_match(block) ==
    LET at == { i \in 1..Len(block) : PublishedFileEnd(block, i) > 0 }
    IN  IF at = {} THEN None
        ELSE Some(SubSeq(block, Min(at), PublishedFileEnd(block, Min(at)) - 1))

\* detailed_info of a command.  The captures of this model hold no d and no
\* notify command, whose branches (lines 75-98) are left out.
detailed_info(cmd, block, file) ==
    CASE cmd = Str("p") ->
           IF file # None THEN Str("Publish: ") \o Val(file)
           ELSE Str("Publish: (no file found)")
      [] cmd = Str("scn") -> Str("Sequence command")
      [] cmd \notin { Str("p"), Str("scn"), Str("d"), Str("notify") } -> << >>

rec_entry(time, cmd, block) ==
    [ time |-> time, command |-> cmd, label |-> None,
      detailed_info |-> detailed_info(cmd, block, file_match(block)) ]

\* message_record, with its other_cmds filled in.
message_record(time, seq) ==
    [ time |-> time, s_pid |-> seq.s_pid, d_pid |-> seq.d_pid,
      other_cmds |-> [ k \in 1..Len(seq.other_cmd_blocks) |->
                         rec_entry(time, seq.other_cmd_blocks[k].name,
                                   seq.other_cmd_blocks[k].body) ] ]

\* plot_sequence.parse_records over the lines of the file.
parse_records(lines) ==
    [ k \in 1..Len(lines) |-> message_record(lines[k].time, ParseSequence(lines[k].data)) ]

InitEndToEnd ==
    /\ pc = "pcap_loop"
    /\ nblocks = 0
    /\ first_timestamp = None
    /\ norm_time = None
    /\ first_written = FALSE
    /\ out_fp = << >>
    /\ last = NoLast
    /\ capture = "end_to_end"
    /\ filename_bound = FALSE
    /\ TextIdle
    /\ PlotIdle
    /\ FilterIdle
    /\ TimelineIdle
    /\ fault = "none"

\* plot_sequence.main: records = parse_records(args.json_file), on the file
\* analyze_pcap.main has written.
ParseRecords ==
    /\ pc = "pcap_done"
    /\ capture = "end_to_end"
    /\ records' = parse_records(out_fp)
    /\ pc' = "parsed"
    /\ UNCHANGED << fault, timeline_vars, filter_vars, extractor_vars, text_vars,
                    start_time, end_time, diagram >>

NextEndToEnd == NextPcap \/ ParseRecords

SpecEndToEnd == InitEndToEnd /\ [][NextEndToEnd]_vars

\* Bytes as lower-case hex pairs joined by colons.
RECURSIVE ColonHex(_)
ColonHex(bytes) ==
    IF bytes = << >> THEN << >>
    ELSE << Str("0123456789abcdef")[(bytes[1] \div 16) + 1],
            Str("0123456789abcdef")[(bytes[1] % 16) + 1] >>
           \o (IF Len(bytes) > 1 THEN << ":" >> \o ColonHex(Tail(bytes)) ELSE << >>)

\* The frame of the run carried the publish payload and its record has been
\* parsed.
PublishParsed ==
    /\ pc = "parsed"
    /\ last.block.packet_data # None
    /\ Decode(last.payload) = PublishPayload

\* The record's addresses are the frame's header bytes 6-11 and 0-5.
AddressesOfFrame ==
    /\ out_fp[1].src_mac = ColonHex(SubSeq(Val(last.block.packet_data), 7, 12))
    /\ out_fp[1].dst_mac = ColonHex(SubSeq(Val(last.block.packet_data), 1, 6))

\* C25: a frame carrying `ng -p --notify 0.1 [ <1 s 18> <1 s file.txt> ]`
\* decodes to one event with command p, with a vector that holds at least
\* one identifier field, and with src_mac and dst_mac equal to the frame's
\* bytes 6-11 and 0-5 in lower-case colon-hex.
C25_PublishEvent ==
    PublishParsed
    => /\ Len(out_fp) = 1 /\ Len(records) = 1
       /\ Len(records[1].other_cmds) = 1
       /\ records[1].other_cmds[1].command = Str("p")
       /\ \/ records[1].s_pid # None
          \/ records[1].d_pid # None
          \/ \E c \in Range(other_cmd_blocks(out_fp[1].data)) :
                \E g \in Range(GroupTexts(c.body, 1)) : GroupFields(g) # << >>
       /\ AddressesOfFrame

\* C25, as the code has it: the event has command p and the file name of the
\* body, and no identifier: neither 18 nor file.txt is one, and there is no
\* binding command to take s_pid and d_pid from.
C25_PublishEventWithoutIdentifier ==
    PublishParsed
    => /\ Len(out_fp) = 1 /\ Len(records) = 1
       /\ out_fp[1].data = PublishPayload
       /\ Len(records[1].other_cmds) = 1
       /\ records[1].other_cmds[1].command = Str("p")
       /\ records[1].other_cmds[1].detailed_info = Str("Publish: file.txt")
       /\ records[1].s_pid = None /\ records[1].d_pid = None
       /\ AddressesOfFrame

C25_Witness ==
    /\ PublishParsed
    /\ Len(records) = 1
    /\ out_fp[1].src_mac = Str("cd:ef:00:fa:ce:0f")
    /\ out_fp[1].dst_mac = Str("01:23:45:67:89:ab")
    /\ records[1].other_cmds[1].command = Str("p")

(***************************************************************************)
(* Binding commands of every shape: at most MaxVectors vectors, each with  *)
(* no field, fewer fields than the parsers read, or more.                  *)
(***************************************************************************)
VectorPool ==
    { Str("< 1 s 0A1B2C3D >"),
      Str("< 4 s >"),
      Str("< 4 s 11111111 22222222 >"),
      Str("< 4 s 11111111 22222222 AAAA0001 33333333 >"),
      Str("< 4 s 44444444 55555555 BBBB0002 66666666 77777777 >") }

\* The bodies of at most n vectors.
RECURSIVE Bodies(_)
Bodies(n) ==
    IF n = 0 THEN { << >> }
    ELSE Bodies(n - 1) \cup { b \o Str(" ") \o v : b \in Bodies(n - 1), v \in VectorPool }

BindingTexts == { Str("ng -m --cl 0.1 [") \o b \o Str(" ]") : b \in Bodies(MaxVectors) }

InitBodies ==
    /\ pc = "parse"
    /\ nblocks = 0
    /\ first_timestamp = None
    /\ norm_time = None
    /\ first_written = FALSE
    /\ out_fp = << >>
    /\ last = NoLast
    /\ capture = "none"
    /\ filename_bound = FALSE
    /\ substrings = << >>
    /\ data \in BindingTexts
    /\ matching = << >>
    /\ parsed = NotParsed
    /\ PlotIdle
    /\ FilterIdle
    /\ TimelineIdle
    /\ fault = "none"

SpecBodies == InitBodies /\ [][NextParse]_vars

\* An identifier a parser reports is None or a text of the data.
PresentOrNone(id) == id = None \/ Contains(data, Val(id))

\* C26: whatever the number of vectors and of fields of the binding command,
\* none of the three parsers reads a field that is not there: every
\* identifier it reports is a field of the data or None, or the record is
\* skipped, and no IndexError is raised.
C26_NoFieldPastTheEnd ==
    /\ parsed.spid # None
        => IF Val(parsed.spid).appended
           THEN /\ Len(Val(parsed.spid).hex_groups) >= 6
                /\ PresentOrNone(Val(parsed.spid).s_pid)
                /\ PresentOrNone(Val(parsed.spid).d_pid)
           ELSE Val(parsed.spid).why \in { "no_m_match", "few_hex_groups" }
    /\ parsed.seq # None
        => /\ PresentOrNone(Val(parsed.seq).s_pid)
           /\ PresentOrNone(Val(parsed.seq).d_pid)
           /\ (Val(parsed.seq).d_pid # None => Len(Val(parsed.seq).matches) >= 2)
    /\ parsed.msgs # None
        => \A f \in { "did", "s_hid", "s_osid", "s_pid", "s_bid",
                      "d_hid", "d_osid", "d_pid", "d_bid" } :
              PresentOrNone(Val(parsed.msgs)[f])

\* A binding command of three vectors with fewer fields than the parsers
\* read: plot_spid_dpid skips the record, the others report None.
C26_Witness ==
    /\ data \in BindingTexts
    /\ parsed.spid # None /\ parsed.seq # None /\ parsed.msgs # None
    /\ ~Val(parsed.spid).appended
    /\ Len(Val(parsed.spid).hex_groups) \in 3..5
    /\ Len(Val(parsed.msgs).vectors) = 3
    /\ Val(parsed.msgs).did # None
    /\ Val(parsed.msgs).s_pid = None
    /\ Val(parsed.seq).s_pid = None

\* The three parsers have read the record.
AllParsed == pc = "parse" /\ parsed.spid # None /\ parsed.seq # None /\ parsed.msgs # None

\* C27: for a binding command of the documented form
\* `< 1 s DID > < 4 s S_HID S_OSID S_PID S_BID > < 4 s D_HID D_OSID D_PID D_BID >`
\* parse_spid_dpid_records returns s_pid = S_PID and d_pid = D_PID, the pair
\* plot_sequence.parse_records and plotmessages.parse_records return.
C27_SamePair ==
    (AllParsed /\ data = BindingCommand(Str("0A1B2C3D"), Str("AAAA0001"), Str("BBBB0002")))
    => /\ Val(parsed.seq).s_pid = Some(Str("AAAA0001"))
       /\ Val(parsed.seq).d_pid = Some(Str("BBBB0002"))
       /\ Val(parsed.msgs).s_pid = Some(Str("AAAA0001"))
       /\ Val(parsed.msgs).d_pid = Some(Str("BBBB0002"))
       /\ Val(parsed.spid).appended
       /\ Val(parsed.spid).s_pid = Some(Str("AAAA0001"))
       /\ Val(parsed.spid).d_pid = Some(Str("BBBB0002"))

\* The names of the commands of the data other than the binding command `m`,
\* in order of appearance.
OtherCommandNames ==
    [ k \in 1..Len(SelectSeq(GrammarTokens(data, 1), NotBinding)) |->
        SelectSeq(GrammarTokens(data, 1), NotBinding)[k][1] ]

\* C30: every command of the data whose name is not exactly `m` is in the
\* record's other_cmds, in order of appearance, those whose name begins with
\* `m` included, and the three parsers list the same names.
C30_OtherCommands ==
    AllParsed
    => /\ Val(parsed.seq).other_cmds = OtherCommandNames
       /\ Val(parsed.msgs).other_cmds = OtherCommandNames
       /\ Val(parsed.spid).appended
            => Val(parsed.spid).other_cmds = OtherCommandNames


(***************************************************************************)
(* plotmessages.py: the timeline of the commands.  main reads the records  *)
(* of json_file with parse_records and hands them to plot_pid_vs_command,  *)
(* which groups the times of the command records by (d_pid, command) and   *)
(* draws one bar per time of each group.                                   *)
(***************************************************************************)
\* plotmessages.parse_records: the rec_entry of the k-th other command; the
\* list is empty when the binding command gave no d_pid.
messages_rec_entry(time, cmd, d_pid) ==
    [ time |-> time, command |-> cmd, d_pid |-> d_pid ]

\* plotmessages.parse_records: ng_m_record, with its other_cmds filled in.
ng_m_record(time, msgs) ==
    [ time |-> time, s_pid |-> msgs.s_pid, d_pid |-> msgs.d_pid,
      other_cmds |-> [ k \in 1..Len(msgs.other_cmds) |->
                         messages_rec_entry(time, msgs.other_cmds[k], msgs.d_pid) ] ]

\* plotmessages.parse_records over the lines of the file.
messages_parse_records(lines) ==
    [ k \in 1..Len(lines) |-> ng_m_record(lines[k].time, ParseMessages(lines[k].data)) ]

\* other_cmd_records: the other_cmds of the records, one list.
RECURSIVE other_cmd_records(_)
other_cmd_records(recs) ==
    IF recs = << >> THEN << >>
    ELSE Head(recs).other_cmds \o other_cmd_records(Tail(recs))

\* `not time` of Python: true of None and of the number 0.0.
not_time(time) == time = None \/ Val(time) = 0

\* `if not d_pid or not command or not time: continue`
skipped(rec) ==
    \/ rec.d_pid = None \/ Val(rec.d_pid) = << >>
    \/ rec.command = << >>
    \/ not_time(rec.time)

\* The times appended to dpid_command_times[key], in the order of the list.
times_of_key(others, key) ==
    LET mine == SelectSeq(others, LAMBDA rec : ~skipped(rec)
                                     /\ << Val(rec.d_pid), rec.command >> = key)
    IN  [ k \in 1..Len(mine) |-> Val(mine[k].time) ]

\* dpid_command_times as plot_pid_vs_command builds it from other_cmd_records.
dpid_command_times_of(others) ==
    [ key \in { << Val(others[k].d_pid), others[k].command >> :
                  k \in { j \in 1..Len(others) : ~skipped(others[j]) } }
        |-> times_of_key(others, key) ]

\* The data of the lines of the timeline's file: the binding command followed
\* by one or two commands, and a command with no binding command before it.
TimelineTexts ==
    { BindingCommand(Str("0A1B2C3D"), Str("AAAA0001"), Str("BBBB0002"))
        \o Str(" ng -d --b 0.1 [ < 1 s 18 > ]"),
      BindingCommand(Str("0A1B2C3D"), Str("AAAA0001"), Str("BBBB0002"))
        \o Str(" ng -p --notify 0.1 [ < 1 s 18 > ] ng -d --b 0.1 [ < 1 s 18 > ]"),
      Str("ng -d --b 0.1 [ < 1 s 18 > ]") }

TimelineLines == [ time : { None, Some(0), Some(5) }, data : TimelineTexts ]

\* The files of at most n lines.
RECURSIVE TimelineFiles(_)
TimelineFiles(n) ==
    IF n = 0 THEN { << >> }
    ELSE TimelineFiles(n - 1) \cup
         { Append(f, line) : f \in { g \in TimelineFiles(n - 1) : Len(g) = n - 1 },
                             line \in TimelineLines }

InitTimeline ==
    /\ pc = "timeline"
    /\ nblocks = 0
    /\ first_timestamp = None
    /\ norm_time = None
    /\ first_written = FALSE
    /\ out_fp = << >>
    /\ last = NoLast
    /\ capture = "none"
    /\ filename_bound = FALSE
    /\ TextIdle
    /\ PlotIdle
    /\ FilterIdle
    /\ json_file \in TimelineFiles(MaxMessages)
    /\ dpid_command_times = << >>
    /\ fault = "none"

\* plotmessages.main: records = parse_records(args.json_file), no start or
\* end time on the command line.
MessagesParseRecords ==
    /\ pc = "timeline"
    /\ records' = messages_parse_records(json_file)
    /\ pc' = "timeline_parsed"
    /\ UNCHANGED << fault, filter_vars, extractor_vars, text_vars,
                    start_time, end_time, diagram, json_file, dpid_command_times >>

\* plotmessages.main: plot_pid_vs_command(records, ...).
PlotPidVsCommand ==
    /\ pc = "timeline_parsed"
    /\ dpid_command_times' = dpid_command_times_of(other_cmd_records(records))
    /\ pc' = "timeline_plotted"
    /\ UNCHANGED << fault, filter_vars, extractor_vars, text_vars, plot_vars, json_file >>

NextTimeline == MessagesParseRecords \/ PlotPidVsCommand

SpecTimeline == InitTimeline /\ [][NextTimeline]_vars

\* Whether the timeline has a bar for the command record.
OnTimeline(rec) ==
    /\ << Val(rec.d_pid), rec.command >> \in DOMAIN dpid_command_times
    /\ Val(rec.time) \in Range(dpid_command_times[<< Val(rec.d_pid), rec.command >>])

\* C29: once plot_pid_vs_command has run, every command record that has a
\* d_pid, a command name and a time that is not null is on the timeline, a
\* record at time 0.0 included.
C29_EveryTimedCommandPlaced ==
    pc = "timeline_plotted" =>
        \A rec \in Range(other_cmd_records(records)) :
            (rec.d_pid # None /\ Val(rec.d_pid) # << >> /\ rec.command # << >>
               /\ rec.time # None)
            => OnTimeline(rec)

====
